---- MODULE Spec2Model ----
(***************************************************************************)
(* Literature tracing tool: the retrieval / deduplication / ranking /      *)
(* evaluation pipeline.                                                    *)
(*                                                                         *)
(* Strings whose characters matter (identifier, title, author) are         *)
(* sequences of one-character strings; strings that are only compared or   *)
(* tested for emptiness (journal, abstract) are plain strings.  An         *)
(* optional field is <<>> when absent and <<v>> when present.  Scores and   *)
(* impact factors are fixed-point numbers in hundredths.                   *)
(***************************************************************************)
EXTENDS Integers, Sequences, FiniteSets, TLC

VARIABLES
    lits,       \* the array handed to a DeduplicationService function
    ret,        \* the array that function returned
    ret2,       \* the array returned by a second application
    op,         \* which function has been applied so far
    request,    \* the EvaluationRequest handed to the evaluator
    evaluation, \* the LiteratureEvaluation it returned
    pc,         \* where the POST handler of the search route stands
    body,       \* the parsed request body: <<>> when it has no string text
    exaApiKey,  \* process.env.EXA_API_KEY is set
    openRouterKey, \* process.env.OPENROUTER_API_KEY is set
    crossrefUp, \* the bibliographic provider answers during this request
    sentences,  \* the sentences the text was split into
    exaSearch,  \* per sentence: the searchWithRetry call of its query
    work,       \* per sentence: its literature list and each record's stage
    response,   \* the HTTP response, <<>> until it is sent
    net         \* one service call under study: its arguments and progress

libVars == <<lits, ret, ret2>>

evalVars == <<request, evaluation>>

envVars == <<body, exaApiKey, openRouterKey, crossrefUp>>

routeVars == <<pc, body, exaApiKey, openRouterKey, crossrefUp, sentences,
               exaSearch, work, response>>

netVars == <<net>>

vars == <<lits, ret, ret2, op, request, evaluation, pc, body, exaApiKey,
          openRouterKey, crossrefUp, sentences, exaSearch, work, response,
          net>>

(***************************************************************************)
(* Bounds of the model.                                                    *)
(***************************************************************************)
MaxLen == 3

(***************************************************************************)
(* JavaScript strings, character by character.                             *)
(***************************************************************************)
UpperLetters ==
    <<"A", "B", "C", "D", "E", "F", "G", "H", "I", "J", "K", "L", "M",
      "N", "O", "P", "Q", "R", "S", "T", "U", "V", "W", "X", "Y", "Z">>

LowerLetters ==
    <<"a", "b", "c", "d", "e", "f", "g", "h", "i", "j", "k", "l", "m",
      "n", "o", "p", "q", "r", "s", "t", "u", "v", "w", "x", "y", "z">>

Digits == {"0", "1", "2", "3", "4", "5", "6", "7", "8", "9"}

ToLowerChar(c) ==
    IF \E i \in 1..26 : UpperLetters[i] = c
    THEN LowerLetters[CHOOSE i \in 1..26 : UpperLetters[i] = c]
    ELSE c

IsSpaceChar(c) == c \in {" ", "\t", "\n"}

\* \w
IsWordChar(c) ==
    \/ \E i \in 1..26 : c = UpperLetters[i] \/ c = LowerLetters[i]
    \/ c \in Digits
    \/ c = "_"

ToLowerCase(s) == [i \in 1..Len(s) |-> ToLowerChar(s[i])]

RECURSIVE TrimStart(_)
TrimStart(s) ==
    IF s # <<>> /\ IsSpaceChar(Head(s)) THEN TrimStart(Tail(s)) ELSE s

RECURSIVE TrimEnd(_)
TrimEnd(s) ==
    IF s # <<>> /\ IsSpaceChar(s[Len(s)])
    THEN TrimEnd(SubSeq(s, 1, Len(s) - 1))
    ELSE s

Trim(s) == TrimEnd(TrimStart(s))

\* s.replace(/[^\w\s]/g, '')
RECURSIVE RemovePunctuation(_)
RemovePunctuation(s) ==
    IF s = <<>> THEN <<>>
    ELSE IF IsWordChar(Head(s)) \/ IsSpaceChar(Head(s))
         THEN <<Head(s)>> \o RemovePunctuation(Tail(s))
         ELSE RemovePunctuation(Tail(s))

\* s.replace(/\s+/g, ' ')
RECURSIVE CollapseWhitespace(_)
CollapseWhitespace(s) ==
    IF s = <<>> THEN <<>>
    ELSE IF IsSpaceChar(Head(s))
         THEN <<" ">> \o CollapseWhitespace(TrimStart(s))
         ELSE <<Head(s)>> \o CollapseWhitespace(Tail(s))

NA == <<"N", "/", "A">>

UnknownJournal == <<"U", "n", "k", "n", "o", "w", "n", " ", "J", "o", "u", "r", "n", "a", "l">>

UnknownAuthor == <<"U", "n", "k", "n", "o", "w", "n", " ", "A", "u", "t", "h", "o", "r">>

JournalNature == <<"N", "a", "t", "u", "r", "e">>

Str10Dot == <<"1", "0", ".">>

StartsWith(s, prefix) ==
    Len(s) >= Len(prefix) /\ SubSeq(s, 1, Len(prefix)) = prefix

\* s.indexOf(sub), 1-based; 0 when sub does not occur
IndexOf(s, sub) ==
    LET at == {i \in 1..(Len(s) - Len(sub) + 1) :
                  SubSeq(s, i, i + Len(sub) - 1) = sub}
    IN  IF at = {} THEN 0 ELSE CHOOSE i \in at : \A j \in at : i <= j

Includes(s, sub) == IndexOf(s, sub) # 0

\* s.replace(sub, by): the first occurrence only
ReplaceFirst(s, sub, by) ==
    LET i == IndexOf(s, sub)
    IN  IF i = 0 THEN s
        ELSE SubSeq(s, 1, i - 1) \o by \o SubSeq(s, i + Len(sub), Len(s))

IsDigits(s) == s # <<>> /\ \A i \in 1..Len(s) : s[i] \in Digits

\* JavaScript truthiness of an optional number and of an optional string
TruthyNum(o) == o # <<>> /\ o[1] # 0

TruthyStr(o) == o # <<>> /\ o[1] # ""

\* a || b on optional numbers and on optional strings
OrElseNum(a, b) == IF TruthyNum(a) THEN a ELSE b

OrElseStr(a, b) == IF TruthyStr(a) THEN a ELSE b

\* (x || 0) on an optional number
OrZero(o) == IF TruthyNum(o) THEN o[1] ELSE 0

(***************************************************************************)
(* DeduplicationService                                                    *)
(***************************************************************************)
normalizeTitle(title) ==
    Trim(CollapseWhitespace(RemovePunctuation(ToLowerCase(title))))

\* a key that compares identifiers without lowercasing them
generateKey_caseSensitive(literature) ==
    IF literature.doi # <<>> /\ literature.doi # NA
          /\ Trim(literature.doi) # <<>>
    THEN <<"doi", Trim(literature.doi)>>
    ELSE LET firstAuthor ==
                 IF literature.authors # <<>> /\ literature.authors[1] # <<>>
                 THEN literature.authors[1]
                 ELSE <<"u", "n", "k", "n", "o", "w", "n">>
             normalizedAuthor == Trim(RemovePunctuation(ToLowerCase(firstAuthor)))
         IN  <<"title", normalizeTitle(literature.title), normalizedAuthor,
               literature.year>>

generateKey(literature) ==
    IF literature.doi # <<>> /\ literature.doi # NA
          /\ Trim(literature.doi) # <<>>
    THEN <<"doi", Trim(ToLowerCase(literature.doi))>>
    ELSE LET firstAuthor ==
                 IF literature.authors # <<>> /\ literature.authors[1] # <<>>
                 THEN literature.authors[1]
                 ELSE <<"u", "n", "k", "n", "o", "w", "n">>
             normalizedAuthor == Trim(RemovePunctuation(ToLowerCase(firstAuthor)))
         IN  <<"title", normalizeTitle(literature.title), normalizedAuthor,
               literature.year>>

RECURSIVE DedupLoop(_, _, _)
DedupLoop(rest, seenKeys, deduplicatedList) ==
    IF rest = <<>> THEN deduplicatedList
    ELSE LET key == generateKey(Head(rest))
         IN  IF key \notin seenKeys
             THEN DedupLoop(Tail(rest), seenKeys \cup {key},
                            Append(deduplicatedList, Head(rest)))
             ELSE DedupLoop(Tail(rest), seenKeys, deduplicatedList)

\* a loop that removes duplicates in place and steps over the element that
\* follows each removal
RECURSIVE DedupSkipLoop(_, _, _)
DedupSkipLoop(rest, seenKeys, deduplicatedList) ==
    IF rest = <<>> THEN deduplicatedList
    ELSE LET key == generateKey(Head(rest))
         IN  IF key \notin seenKeys
             THEN DedupSkipLoop(Tail(rest), seenKeys \cup {key},
                                Append(deduplicatedList, Head(rest)))
             ELSE IF Tail(rest) = <<>> THEN deduplicatedList
                  ELSE DedupSkipLoop(Tail(Tail(rest)),
                           seenKeys \cup {generateKey(Head(Tail(rest)))},
                           Append(deduplicatedList, Head(Tail(rest))))

deduplicate_skipAfterRemoval(literatureList) ==
    DedupSkipLoop(literatureList, {}, <<>>)

\* a map keyed by CanonicalKey in which a later record replaces the earlier
RECURSIVE DedupKeepLastLoop(_, _)
DedupKeepLastLoop(rest, deduplicatedList) ==
    IF rest = <<>> THEN deduplicatedList
    ELSE LET key == generateKey(Head(rest))
             hit == {i \in 1..Len(deduplicatedList) :
                        generateKey(deduplicatedList[i]) = key}
         IN  IF hit = {}
             THEN DedupKeepLastLoop(Tail(rest),
                                    Append(deduplicatedList, Head(rest)))
             ELSE DedupKeepLastLoop(Tail(rest),
                      [i \in 1..Len(deduplicatedList) |->
                          IF i \in hit THEN Head(rest)
                          ELSE deduplicatedList[i]])

deduplicate_keepLast(literatureList) == DedupKeepLastLoop(literatureList, <<>>)

deduplicate(literatureList) == DedupLoop(literatureList, {}, <<>>)

\* mutant of calculateCompletenessScore: the identifier weighs 2
calculateCompletenessScore_identifierWeighs2(literature) ==
      (IF literature.doi # <<>> /\ literature.doi # NA THEN 2 ELSE 0)
    + (IF TruthyStr(literature.abstract) THEN 2 ELSE 0)
    + (IF TruthyNum(literature.citationCount) THEN 1 ELSE 0)
    + (IF TruthyNum(literature.impactFactor) THEN 1 ELSE 0)
    + (IF Len(literature.authors) > 1 THEN 1 ELSE 0)
    + (IF literature.journal # <<>> /\ literature.journal # UnknownJournal
       THEN 1 ELSE 0)

calculateCompletenessScore(literature) ==
      (IF literature.doi # <<>> /\ literature.doi # NA THEN 3 ELSE 0)
    + (IF TruthyStr(literature.abstract) THEN 2 ELSE 0)
    + (IF TruthyNum(literature.citationCount) THEN 1 ELSE 0)
    + (IF TruthyNum(literature.impactFactor) THEN 1 ELSE 0)
    + (IF Len(literature.authors) > 1 THEN 1 ELSE 0)
    + (IF literature.journal # <<>> /\ literature.journal # UnknownJournal
       THEN 1 ELSE 0)

mergeLiteratureItems(item1, item2) ==
    IF item1.verified /\ ~item2.verified
    THEN [item1 EXCEPT !.abstract = OrElseStr(item1.abstract, item2.abstract)]
    ELSE IF item2.verified /\ ~item1.verified
    THEN [item2 EXCEPT !.abstract = OrElseStr(item2.abstract, item1.abstract)]
    ELSE LET item1Score == calculateCompletenessScore(item1)
             item2Score == calculateCompletenessScore(item2)
             preferred == IF item1Score >= item2Score THEN item1 ELSE item2
             other == IF item1Score >= item2Score THEN item2 ELSE item1
         IN  [preferred EXCEPT
                 !.abstract = OrElseStr(preferred.abstract, other.abstract),
                 !.citationCount =
                     OrElseNum(preferred.citationCount, other.citationCount),
                 !.impactFactor =
                     OrElseNum(preferred.impactFactor, other.impactFactor),
                 !.supportingPages =
                     OrElseNum(preferred.supportingPages, other.supportingPages)]

\* keyToLiterature is a Map: a sequence of <<key, value>> in insertion order
RECURSIVE MergeLoop(_, _)
MergeLoop(rest, keyToLiterature) ==
    IF rest = <<>> THEN [i \in 1..Len(keyToLiterature) |-> keyToLiterature[i][2]]
    ELSE LET literature == Head(rest)
             key == generateKey(literature)
             at == {i \in 1..Len(keyToLiterature) : keyToLiterature[i][1] = key}
         IN  IF at = {}
             THEN MergeLoop(Tail(rest),
                            Append(keyToLiterature, <<key, literature>>))
             ELSE MergeLoop(Tail(rest),
                      [i \in 1..Len(keyToLiterature) |->
                          IF i \in at
                          THEN <<key, mergeLiteratureItems(keyToLiterature[i][2],
                                                          literature)>>
                          ELSE keyToLiterature[i]])

mergeAndDeduplicate(literatureList) == MergeLoop(literatureList, <<>>)

\* a comparator that ranks the less cited record first
CompareQuality_citationsAscending(a, b) ==
    IF a.verified # b.verified THEN (IF a.verified THEN -1 ELSE 1)
    ELSE IF OrZero(a.citationCount) # OrZero(b.citationCount)
    THEN OrZero(a.citationCount) - OrZero(b.citationCount)
    ELSE IF OrZero(a.impactFactor) # OrZero(b.impactFactor)
    THEN OrZero(b.impactFactor) - OrZero(a.impactFactor)
    ELSE IF a.year # b.year THEN b.year - a.year
    ELSE calculateCompletenessScore(b) - calculateCompletenessScore(a)

\* the comparator of sortByRelevanceAndQuality: negative when a sorts first
CompareQuality(a, b) ==
    IF a.verified # b.verified THEN (IF a.verified THEN -1 ELSE 1)
    ELSE IF OrZero(a.citationCount) # OrZero(b.citationCount)
    THEN OrZero(b.citationCount) - OrZero(a.citationCount)
    ELSE IF OrZero(a.impactFactor) # OrZero(b.impactFactor)
    THEN OrZero(b.impactFactor) - OrZero(a.impactFactor)
    ELSE IF a.year # b.year THEN b.year - a.year
    ELSE calculateCompletenessScore(b) - calculateCompletenessScore(a)

\* Array.prototype.sort is a stable sort: each element is placed after
\* the last element that does not compare greater than it
RECURSIVE InsertStable(_, _)
InsertStable(sorted, x) ==
    IF sorted = <<>> THEN <<x>>
    ELSE IF CompareQuality(sorted[Len(sorted)], x) <= 0
         THEN Append(sorted, x)
         ELSE Append(InsertStable(SubSeq(sorted, 1, Len(sorted) - 1), x),
                     sorted[Len(sorted)])

RECURSIVE SortLoop(_, _)
SortLoop(rest, sorted) ==
    IF rest = <<>> THEN sorted
    ELSE SortLoop(Tail(rest), InsertStable(sorted, Head(rest)))

sortByRelevanceAndQuality(literatureList) == SortLoop(literatureList, <<>>)

(***************************************************************************)
(* JavaScript numbers of the fallback evaluator: a finite number in        *)
(* hundredths, or NaN, or -Infinity.                                       *)
(***************************************************************************)
Num(v) == [k |-> "num", v |-> v]

NaN == [k |-> "NaN", v |-> 0]

NegInfinity == [k |-> "-Infinity", v |-> 0]

MathMin(a, b) ==
    IF a.k = "NaN" \/ b.k = "NaN" THEN NaN
    ELSE IF a.k = "-Infinity" \/ b.k = "-Infinity" THEN NegInfinity
    ELSE IF a.v <= b.v THEN a ELSE b

MathMax(a, b) ==
    IF a.k = "NaN" \/ b.k = "NaN" THEN NaN
    ELSE IF a.k = "-Infinity" THEN b
    ELSE IF b.k = "-Infinity" THEN a
    ELSE IF a.v >= b.v THEN a ELSE b

Plus(a, b) ==
    IF a.k = "NaN" \/ b.k = "NaN" THEN NaN
    ELSE IF a.k = "-Infinity" \/ b.k = "-Infinity" THEN NegInfinity
    ELSE Num(a.v + b.v)

\* a * 2 and a / 2
Twice(a) == IF a.k = "num" THEN Num(2 * a.v) ELSE a

Half(a) == IF a.k = "num" THEN Num(a.v \div 2) ELSE a

RECURSIVE Magnitude(_)
Magnitude(n) == IF n < 10 THEN 0 ELSE 1 + Magnitude(n \div 10)

RECURSIVE Pow10(_)
Pow10(k) == IF k = 0 THEN 1 ELSE 10 * Pow10(k - 1)

\* the binary digits of log10(m / 1000) for 1000 <= m < 10000, by repeated
\* squaring; bit is the weight of the next digit in 1/6400
RECURSIVE FractionBits(_, _, _)
FractionBits(m, bit, k) ==
    IF k = 0 THEN 0
    ELSE LET sq == (m * m) \div 1000
         IN  IF sq >= 10000
             THEN bit + FractionBits(sq \div 10, bit \div 2, k - 1)
             ELSE FractionBits(sq, bit \div 2, k - 1)

\* Math.log10 of an integer
MathLog10(n) ==
    IF n < 0 THEN NaN
    ELSE IF n = 0 THEN NegInfinity
    ELSE LET d == Magnitude(n)
             m == (n * 1000) \div Pow10(d)
         IN  Num(100 * d + FractionBits(m, 3200, 7) \div 64)

CurrentYear == 2026

\* random is the value of Math.random(), in hundredths
getFallbackEvaluation(req, random) ==
    LET yearScore == MathMax(Num(0), Num(1000 - (CurrentYear - req.year) * 50))
        citationScore ==
            IF TruthyNum(req.citationCount)
            THEN MathMin(Num(1000), Twice(MathLog10(req.citationCount[1] + 1)))
            ELSE Num(500)
        impactScore ==
            IF TruthyNum(req.impactFactor)
            THEN MathMin(Num(1000), Num(2 * req.impactFactor[1]))
            ELSE Num(500)
    IN  [relevance |-> MathMin(Num(1000), MathMax(Num(100), Num(700 + 2 * random))),
         credibility |-> MathMin(Num(1000),
                            MathMax(Num(100), Half(Plus(yearScore, citationScore)))),
         impact |-> MathMin(Num(1000), MathMax(Num(100), impactScore)),
         source |-> "fallback"]

(***************************************************************************)
(* The search route: provider adapters                                     *)
(***************************************************************************)
\* the length of a match of /\s+and\s+/i at the start of s; 0 when none
AndSeparatorLen(s) ==
    LET n1 == Len(s) - Len(TrimStart(s))
        r1 == TrimStart(s)
        r2 == SubSeq(r1, 4, Len(r1))
        n2 == Len(r2) - Len(TrimStart(r2))
    IN  IF n1 >= 1 /\ Len(r1) >= 3
             /\ ToLowerCase(SubSeq(r1, 1, 3)) = <<"a", "n", "d">> /\ n2 >= 1
        THEN n1 + 3 + n2
        ELSE 0

\* authorStr.split(/[,;]|\s+and\s+/i)
RECURSIVE SplitAuthors(_, _, _)
SplitAuthors(rest, cur, acc) ==
    IF rest = <<>> THEN Append(acc, cur)
    ELSE IF Head(rest) \in {",", ";"}
    THEN SplitAuthors(Tail(rest), <<>>, Append(acc, cur))
    ELSE IF AndSeparatorLen(rest) > 0
    THEN SplitAuthors(SubSeq(rest, AndSeparatorLen(rest) + 1, Len(rest)), <<>>,
                      Append(acc, cur))
    ELSE SplitAuthors(Tail(rest), Append(cur, Head(rest)), acc)

\* .map(author => author.trim()).filter(author => author.length > 0 && !author.match(/^\d+$/))
RECURSIVE CleanAuthors(_)
CleanAuthors(parts) ==
    IF parts = <<>> THEN <<>>
    ELSE LET a == Trim(Head(parts))
         IN  IF a # <<>> /\ ~IsDigits(a)
             THEN <<a>> \o CleanAuthors(Tail(parts))
             ELSE CleanAuthors(Tail(parts))

SchemeSeparator == <<":", "/", "/">>

\* new URL(url).hostname; <<>> stands for the TypeError of an invalid URL
Hostname(url) ==
    LET i == IndexOf(url, SchemeSeparator)
        rest == SubSeq(url, i + 3, Len(url))
        j == IndexOf(rest, <<"/">>)
    IN  IF i <= 1 THEN <<>>
        ELSE ToLowerCase(IF j = 0 THEN rest ELSE SubSeq(rest, 1, j - 1))

KnownJournals ==
    << <<<<"a", "r", "x", "i", "v", ".", "o", "r", "g">>, <<"a", "r", "X", "i", "v">>>>,
       <<<<"p", "u", "b", "m", "e", "d", ".", "n", "c", "b", "i", ".", "n", "l", "m", ".", "n", "i", "h", ".", "g", "o", "v">>, <<"P", "u", "b", "M", "e", "d">>>>,
       <<<<"n", "a", "t", "u", "r", "e", ".", "c", "o", "m">>, <<"N", "a", "t", "u", "r", "e">>>>,
       <<<<"s", "c", "i", "e", "n", "c", "e", ".", "o", "r", "g">>, <<"S", "c", "i", "e", "n", "c", "e">>>>,
       <<<<"c", "e", "l", "l", ".", "c", "o", "m">>, <<"C", "e", "l", "l">>>>,
       <<<<"n", "e", "j", "m", ".", "o", "r", "g">>, <<"N", "e", "w", " ", "E", "n", "g", "l", "a", "n", "d", " ", "J", "o", "u", "r", "n", "a", "l", " ", "o", "f", " ", "M", "e", "d", "i", "c", "i", "n", "e">>>>,
       <<<<"t", "h", "e", "l", "a", "n", "c", "e", "t", ".", "c", "o", "m">>, <<"T", "h", "e", " ", "L", "a", "n", "c", "e", "t">>>>,
       <<<<"b", "m", "j", ".", "c", "o", "m">>, <<"B", "M", "J">>>>,
       <<<<"s", "p", "r", "i", "n", "g", "e", "r", ".", "c", "o", "m">>, <<"S", "p", "r", "i", "n", "g", "e", "r">>>>,
       <<<<"w", "i", "l", "e", "y", ".", "c", "o", "m">>, <<"W", "i", "l", "e", "y">>>>,
       <<<<"e", "l", "s", "e", "v", "i", "e", "r", ".", "c", "o", "m">>, <<"E", "l", "s", "e", "v", "i", "e", "r">>>>,
       <<<<"i", "e", "e", "e", ".", "o", "r", "g">>, <<"I", "E", "E", "E">>>>,
       <<<<"a", "c", "m", ".", "o", "r", "g">>, <<"A", "C", "M">>>> >>

extractJournalFromUrl(url) ==
    LET hostname == Hostname(url)
        hits == {k \in 1..Len(KnownJournals) :
                    Includes(hostname, KnownJournals[k][1])}
    IN  IF hostname = <<>> THEN UnknownJournal
        ELSE IF hits # {}
        THEN KnownJournals[CHOOSE k \in hits : \A m \in hits : k <= m][2]
        ELSE ReplaceFirst(hostname, <<"w", "w", "w", ".">>, <<>>)

DoiOrg == <<"d", "o", "i", ".", "o", "r", "g">>

DoiOrgPrefix == <<"h", "t", "t", "p", "s", ":", "/", "/", "d", "o", "i", ".", "o", "r", "g", "/">>

\* getFullYear() of an Invalid Date is NaN; the years of the model are
\* integers and NaNYear stands for NaN
NaNYear == -1

\* a publishedDate string that new Date(...) cannot parse
InvalidDate == [invalid |-> TRUE]

\* new Date(publishedDate).getFullYear()
GetFullYear(publishedDate) ==
    IF "year" \in DOMAIN publishedDate THEN publishedDate.year ELSE NaNYear

\* exaResult.publishedDate is absent, an ISO date of the given year, or a
\* string that is no date
convertExaResultToLiterature(exaResult, id) ==
    LET year == IF exaResult.publishedDate # <<>>
                THEN GetFullYear(exaResult.publishedDate[1])
                ELSE CurrentYear
        authorStr == Trim(exaResult.author)
        authors ==
            IF authorStr = <<>> THEN <<UnknownAuthor>>
            ELSE IF Includes(authorStr, <<",">>) \/ Includes(authorStr, <<";">>)
                      \/ Includes(authorStr, <<" ", "a", "n", "d", " ">>)
            THEN CleanAuthors(SplitAuthors(authorStr, <<>>, <<>>))
            ELSE <<authorStr>>
        doi == IF Includes(exaResult.url, DoiOrg)
               THEN ReplaceFirst(exaResult.url, DoiOrgPrefix, <<>>)
               ELSE exaResult.url
    IN  [id |-> id, title |-> exaResult.title, authors |-> authors,
         journal |-> extractJournalFromUrl(exaResult.url), year |-> year,
         doi |-> doi, verified |-> FALSE, abstract |-> exaResult.text,
         citationCount |-> <<>>, impactFactor |-> <<>>,
         supportingPages |-> <<IF exaResult.highlights = 0 THEN 1
                               ELSE exaResult.highlights>>,
         evaluation |-> <<>>]

(***************************************************************************)
(* Inputs of the deduplication checks: every sequence of at most MaxLen    *)
(* records over identifiers that differ in case, whitespace, emptiness and *)
(* the "N/A" sentinel, and titles/authors that differ in punctuation.      *)
(***************************************************************************)
DedupDois ==
    { <<>>,
      NA,
      <<"1", "0", ".", "1", "/", "a">>,
      <<" ", "1", "0", ".", "1", "/", "A">>,
      <<"1", "0", ".", "2", "/", "b">> }

DedupBibs ==
    { [title |-> <<"a", " ", "b">>, authors |-> << <<"X">> >>, year |-> 2020],
      [title |-> <<"A", " ", " ", "b", ".">>, authors |-> << <<"x", ".">> >>,
       year |-> 2020],
      [title |-> <<"c">>, authors |-> << <<"Y">> >>, year |-> 2021] }

MkLiterature(bib, doi, verified, abstract, citationCount, impactFactor, journal) ==
    [id |-> 0, title |-> bib.title, authors |-> bib.authors,
     journal |-> journal, year |-> bib.year, doi |-> doi,
     verified |-> verified, abstract |-> abstract,
     citationCount |-> citationCount, impactFactor |-> impactFactor,
     supportingPages |-> <<>>, evaluation |-> <<>>]

DedupTemplates ==
    { MkLiterature(b, d, FALSE, <<>>, <<>>, <<>>, JournalNature) :
        b \in DedupBibs, d \in DedupDois }

\* the records of an array carry the ids 1, 2, ... in array order
WithIds(xs) == [i \in 1..Len(xs) |-> [xs[i] EXCEPT !.id = i]]

SeqsUpTo(S, n) == UNION { [1..k -> S] : k \in 0..n }

NoLits == <<>>

NoRequest == [year |-> 0, citationCount |-> <<>>, impactFactor |-> <<>>]

NoEvaluation == <<>>

NoBody == [json |-> FALSE, text |-> <<>>]

NoNet == <<>>

NetIdle == net = NoNet

LibIdle == lits = NoLits /\ ret = NoLits /\ ret2 = NoLits

EvalIdle == request = NoRequest /\ evaluation = NoEvaluation

RouteIdle ==
    /\ pc = "idle"
    /\ body = NoBody
    /\ exaApiKey = FALSE
    /\ openRouterKey = FALSE
    /\ crossrefUp = FALSE
    /\ sentences = <<>>
    /\ exaSearch = <<>>
    /\ work = <<>>
    /\ response = <<>>

InitDedup ==
    /\ lits \in { WithIds(xs) : xs \in SeqsUpTo(DedupTemplates, MaxLen) }
    /\ ret = NoLits
    /\ ret2 = NoLits
    /\ op = "init"
    /\ EvalIdle
    /\ RouteIdle
    /\ NetIdle

\* const once = DeduplicationService.deduplicate(literature)
Deduplicate ==
    /\ op = "init"
    /\ ret' = deduplicate(lits)
    /\ op' = "deduplicate"
    /\ UNCHANGED <<lits, ret2, evalVars, routeVars, netVars>>

\* const twice = DeduplicationService.deduplicate(once)
DeduplicateAgain ==
    /\ op = "deduplicate"
    /\ ret2' = deduplicate(ret)
    /\ op' = "deduplicate2"
    /\ UNCHANGED <<lits, ret, evalVars, routeVars, netVars>>

NextDedup == Deduplicate \/ DeduplicateAgain

SpecDedup == InitDedup /\ [][NextDedup]_vars

(***************************************************************************)
(* Claims about deduplicate                                                *)
(***************************************************************************)
\* C6: deduplicate is idempotent: deduplicate(deduplicate(xs)) is the same
\* sequence of records, in the same order, as deduplicate(xs).
C6_DedupIdempotent == op = "deduplicate2" => ret2 = ret

C6_Witness ==
    /\ op = "deduplicate2"
    /\ Len(ret) >= 2
    /\ Len(ret) < Len(lits)

SameIdentifier(a, b) ==
    /\ a.doi # NA
    /\ b.doi # NA
    /\ Trim(ToLowerCase(a.doi)) = Trim(ToLowerCase(b.doi))

\* C7 (as stated): two records whose identifiers are not "N/A" and are equal
\* up to letter case and surrounding whitespace have the same CanonicalKey
\* and deduplicate([a, b]) has exactly one record.
C7_SameIdentifierSameKey ==
    (op = "deduplicate" /\ Len(lits) = 2 /\ SameIdentifier(lits[1], lits[2]))
        => /\ generateKey(lits[1]) = generateKey(lits[2])
           /\ Len(ret) = 1

\* C7 (amended): the same, for identifiers that are moreover non-empty after
\* trimming; an empty or blank identifier counts as no identifier and the
\* key falls back to title, first author and year.
C7_NonEmptyIdentifierSameKey ==
    (op = "deduplicate" /\ Len(lits) = 2 /\ SameIdentifier(lits[1], lits[2])
        /\ Trim(lits[1].doi) # <<>>)
        => /\ generateKey(lits[1]) = generateKey(lits[2])
           /\ Len(ret) = 1

C7_Witness ==
    /\ op = "deduplicate"
    /\ Len(lits) = 2
    /\ SameIdentifier(lits[1], lits[2])
    /\ Trim(lits[1].doi) # <<>>
    /\ lits[1].doi # lits[2].doi
    /\ lits[1].title # lits[2].title
    /\ lits[1].year # lits[2].year
    /\ Len(ret) = 1

\* the positions of xs that hold the first record of their CanonicalKey
FirstPositions(xs) ==
    {i \in 1..Len(xs) :
        \A j \in 1..(i - 1) : generateKey(xs[j]) # generateKey(xs[i])}

RECURSIVE Pick(_, _, _)
Pick(xs, P, i) ==
    IF i > Len(xs) THEN <<>>
    ELSE IF i \in P THEN <<xs[i]>> \o Pick(xs, P, i + 1)
         ELSE Pick(xs, P, i + 1)

\* C8: deduplicate returns, in input order, exactly the first record of each
\* distinct CanonicalKey: one record per key, and every dropped record has
\* the key of an earlier record.
C8_FirstSeenWins ==
    op = "deduplicate" =>
        /\ ret = Pick(lits, FirstPositions(lits), 1)
        /\ Len(ret) = Cardinality({generateKey(lits[i]) : i \in 1..Len(lits)})
        /\ \A i \in 1..Len(lits) :
              (\A k \in 1..Len(ret) : ret[k] # lits[i])
                  => \E j \in 1..(i - 1) :
                        generateKey(lits[j]) = generateKey(lits[i])

C8_Witness ==
    /\ op = "deduplicate"
    /\ Len(lits) = 3
    /\ Len(ret) = 2
    /\ generateKey(lits[1]) = generateKey(lits[3])
    /\ lits[1].title # lits[3].title

(***************************************************************************)
(* Inputs of the merge checks: every pair of records of one publication    *)
(* over all combinations of the verified flag and the optional fields, and *)
(* every group of at most MaxGroup records over a smaller set.             *)
(***************************************************************************)
MaxGroup == 3

Doi1 == <<"1", "0", ".", "1", "/", "a">>

Doi2 == <<"1", "0", ".", "2", "/", "b">>

Bib1 == [title |-> <<"a", " ", "b">>, authors |-> << <<"X">> >>, year |-> 2020]

MergeFull ==
    { MkLiterature(Bib1, Doi1, v, ab, cc, imp, JournalNature) :
        v \in BOOLEAN, ab \in {<<>>, <<"text">>},
        cc \in {<<>>, <<0>>, <<12>>}, imp \in {<<>>, <<3>>} }

MergeGroupTemplates ==
    { MkLiterature(Bib1, Doi1, TRUE, <<>>, <<>>, <<>>, JournalNature),
      MkLiterature(Bib1, Doi1, TRUE, <<"text">>, <<12>>, <<>>, JournalNature),
      MkLiterature(Bib1, Doi1, TRUE, <<>>, <<>>, <<3>>, JournalNature),
      MkLiterature(Bib1, Doi1, FALSE, <<>>, <<12>>, <<>>, JournalNature),
      MkLiterature(Bib1, Doi1, FALSE, <<"text">>, <<>>, <<>>, JournalNature),
      MkLiterature(Bib1, Doi1, FALSE, <<>>, <<>>, <<3>>, JournalNature),
      MkLiterature(Bib1, Doi1, FALSE, <<>>, <<0>>, <<>>, JournalNature),
      MkLiterature(Bib1, Doi1, FALSE, <<>>, <<>>, <<>>, JournalNature),
      MkLiterature(Bib1, Doi2, FALSE, <<>>, <<>>, <<>>, JournalNature) }

IndexPermutations(n) ==
    { p \in [1..n -> 1..n] : \A i, j \in 1..n : p[i] = p[j] => i = j }

InitMerge ==
    /\ lits \in { WithIds(xs) :
                    xs \in [1..2 -> MergeFull]
                          \cup SeqsUpTo(MergeGroupTemplates, MaxGroup) }
    /\ ret = NoLits
    /\ ret2 = NoLits
    /\ op = "init"
    /\ EvalIdle
    /\ RouteIdle
    /\ NetIdle

\* const merged = DeduplicationService.mergeAndDeduplicate(literature)
MergeAndDeduplicate ==
    /\ op = "init"
    /\ ret' = mergeAndDeduplicate(lits)
    /\ op' = "merge"
    /\ UNCHANGED <<lits, ret2, evalVars, routeVars, netVars>>

\* the same records handed over in another order
MergePermuted ==
    /\ op = "merge"
    /\ \E p \in IndexPermutations(Len(lits)) :
          ret2' = mergeAndDeduplicate([i \in 1..Len(lits) |-> lits[p[i]]])
    /\ op' = "merge2"
    /\ UNCHANGED <<lits, ret, evalVars, routeVars, netVars>>

NextMerge == MergeAndDeduplicate \/ MergePermuted

SpecMerge == InitMerge /\ [][NextMerge]_vars

(***************************************************************************)
(* Claims about mergeAndDeduplicate                                        *)
(***************************************************************************)
OptionalFields == {"abstract", "citationCount", "impactFactor"}

Field(r, f) ==
    CASE f = "abstract" -> r.abstract
      [] f = "citationCount" -> r.citationCount
      [] f = "impactFactor" -> r.impactFactor

\* C2: two records with one CanonicalKey, exactly one of which has a given
\* optional field (abstract, citationCount, impactFactor) populated, merge
\* into a single record that holds the populated value, in either input
\* order and whatever the verified flags.
C2_MergeKeepsPopulated ==
    (op = "merge" /\ Len(lits) = 2
        /\ generateKey(lits[1]) = generateKey(lits[2]))
        => /\ Len(ret) = 1
           /\ \A f \in OptionalFields :
                 /\ (Field(lits[1], f) # <<>> /\ Field(lits[2], f) = <<>>)
                        => Field(ret[1], f) = Field(lits[1], f)
                 /\ (Field(lits[1], f) = <<>> /\ Field(lits[2], f) # <<>>)
                        => Field(ret[1], f) = Field(lits[2], f)

\* the merged record of CanonicalKey k in a result
MergedOf(result, k) ==
    result[CHOOSE i \in 1..Len(result) : generateKey(result[i]) = k]

Presence(r) == [f \in OptionalFields |-> Field(r, f) # <<>>]

\* C9: for a group of records sharing one CanonicalKey, every permutation of
\* the input order gives the merged record the same presence or absence of
\* abstract, citationCount and impactFactor; and of two records of equal
\* verification status the one with the higher completeness score is the
\* structural base, whichever of them arrived first.
C9_MergeOrderIndependent ==
    op = "merge2" =>
        /\ \A i \in 1..Len(ret) :
              Presence(ret[i]) = Presence(MergedOf(ret2, generateKey(ret[i])))
        /\ (Len(lits) = 2 /\ Len(ret) = 1
               /\ lits[1].verified = lits[2].verified
               /\ calculateCompletenessScore(lits[1])
                     # calculateCompletenessScore(lits[2]))
              => /\ ret2[1].id = ret[1].id
                 /\ \A i \in 1..2 :
                       calculateCompletenessScore(lits[ret[1].id])
                          >= calculateCompletenessScore(lits[i])

(***************************************************************************)
(* Inputs of the ranking checks                                            *)
(***************************************************************************)
SortTemplates ==
    { MkLiterature([Bib1 EXCEPT !.year = y], Doi1, v, ab, cc, <<>>, JournalNature) :
        v \in BOOLEAN, y \in {2020, 2024}, ab \in {<<>>, <<"text">>},
        cc \in {<<>>, <<100>>} }
    \cup { MkLiterature(Bib1, Doi1, v, <<>>, <<>>, <<2>>, JournalNature) :
             v \in BOOLEAN }
    \cup { MkLiterature(Bib1, Doi1, FALSE, <<>>, <<0>>, <<>>, JournalNature),
           MkLiterature(Bib1, Doi1, FALSE, <<>>, <<1000>>, <<>>, JournalNature),
           MkLiterature(Bib1, Doi1, TRUE, <<>>, <<0>>, <<>>, JournalNature) }

InitSort ==
    /\ lits \in { WithIds(xs) : xs \in SeqsUpTo(SortTemplates, MaxLen) }
    /\ ret = NoLits
    /\ ret2 = NoLits
    /\ op = "init"
    /\ EvalIdle
    /\ RouteIdle
    /\ NetIdle

\* const sorted = DeduplicationService.sortByRelevanceAndQuality(literature)
\* Array.prototype.sort sorts the array in place and returns that array
SortByQuality ==
    /\ op = "init"
    /\ ret' = sortByRelevanceAndQuality(lits)
    /\ lits' = ret'
    /\ op' = "sort"
    /\ UNCHANGED <<ret2, evalVars, routeVars, netVars>>

NextSort == SortByQuality

SpecSort == InitSort /\ [][NextSort]_vars

(***************************************************************************)
(* Claims about sortByQuality                                              *)
(***************************************************************************)
QualityKey(r) ==
    << IF r.verified THEN 1 ELSE 0,
       IF r.citationCount = <<>> THEN 0 ELSE r.citationCount[1],
       IF r.impactFactor = <<>> THEN 0 ELSE r.impactFactor[1],
       r.year,
       calculateCompletenessScore(r) >>

\* a ranks strictly before b: the first criterion on which they differ is
\* larger for a
RanksBefore(a, b) ==
    \E k \in 1..5 :
        /\ QualityKey(a)[k] > QualityKey(b)[k]
        /\ \A j \in 1..(k - 1) : QualityKey(a)[j] = QualityKey(b)[j]

IsStableSortOf(out, in) ==
    /\ Len(out) = Len(in)
    /\ \E p \in IndexPermutations(Len(in)) : out = [i \in 1..Len(in) |-> in[p[i]]]
    /\ \A i, j \in 1..Len(out) :
          i < j =>
            /\ ~RanksBefore(out[j], out[i])
            /\ (out[j].verified => out[i].verified)
            /\ QualityKey(out[i]) = QualityKey(out[j])
                  => \E m, n \in 1..Len(in) :
                        m < n /\ in[m] = out[i] /\ in[n] = out[j]

\* C10: sortByQuality returns the permutation of its input that is the
\* stable sort under the precedence verified (true first), citationCount
\* descending (missing as 0), impactFactor descending (missing as 0), year
\* descending, completenessScore descending: verified records precede
\* unverified ones and records equal on all five keep their input order.
C10_StableRanking ==
    [][SortByQuality => IsStableSortOf(ret', lits)]_vars

C10_Witness ==
    /\ op = "sort"
    /\ Len(ret) = 3
    /\ ret[1].id = 3
    /\ ret[1].verified /\ ~ret[2].verified
    /\ ret[1].citationCount = <<>>
    /\ ret[2].citationCount = <<1000>>
    /\ QualityKey(ret[2]) = QualityKey(ret[3])

(***************************************************************************)
(* Inputs of the fallback evaluator checks                                 *)
(***************************************************************************)
RequestYears == {1990, 2020, 2026, 2030}

RequestCitationCounts ==
    {<<>>, <<0>>, <<-5>>, <<-1>>, <<9>>, <<50>>, <<99999>>, <<123456>>}

RequestImpactFactors == {<<>>, <<0>>, <<-200>>, <<150>>, <<3661>>}

RandomSamples == {0, 50, 99}

InitFallback ==
    /\ request \in [year : RequestYears,
                     citationCount : RequestCitationCounts,
                     impactFactor : RequestImpactFactors]
    /\ evaluation = NoEvaluation
    /\ op = "init"
    /\ LibIdle
    /\ RouteIdle
    /\ NetIdle

\* return this.getFallbackEvaluation(request)
FallbackEvaluation ==
    /\ op = "init"
    /\ \E random \in RandomSamples :
          evaluation' = <<getFallbackEvaluation(request, random)>>
    /\ op' = "fallback"
    /\ UNCHANGED <<libVars, request, routeVars, netVars>>

\* a second call of getFallbackEvaluation with the same request
FallbackEvaluationAgain ==
    /\ op = "fallback"
    /\ \E random \in RandomSamples :
          evaluation' = Append(evaluation, getFallbackEvaluation(request, random))
    /\ op' = "fallback-again"
    /\ UNCHANGED <<libVars, request, routeVars, netVars>>

NextFallback == FallbackEvaluation \/ FallbackEvaluationAgain

SpecFallback == InitFallback /\ [][NextFallback]_vars

IsScore(x) == x.k = "num" /\ 0 <= x.v /\ x.v <= 1000

\* C3: for every evaluation request, also with a zero, negative or absent
\* citationCount or impactFactor, the heuristic fallback evaluator returns
\* three scores that are numbers within [0,10], never NaN.
C3_FallbackScoresBounded ==
    op = "fallback" =>
        /\ IsScore(evaluation[1].relevance)
        /\ IsScore(evaluation[1].credibility)
        /\ IsScore(evaluation[1].impact)

(***************************************************************************)
(* The search route: POST.  The world of one request: what the neural      *)
(* provider can return for a query and what the bibliographic provider     *)
(* holds.                                                                  *)
(***************************************************************************)
MaxSentences == 2

ExaMaxRetries == 3

ExaHitDoi ==
    [title |-> <<"a", " ", "b">>, url |-> <<"h", "t", "t", "p", "s", ":", "/", "/", "d", "o", "i", ".", "o", "r", "g", "/", "1", "0", ".", "1", "/", "a">>,
     publishedDate |-> <<[year |-> 2020]>>, author |-> <<>>,
     text |-> <<"text">>, highlights |-> 0]

ExaHitArxiv ==
    [title |-> <<"c">>, url |-> <<"h", "t", "t", "p", "s", ":", "/", "/", "a", "r", "x", "i", "v", ".", "o", "r", "g", "/", "a", "b", "s", "/", "1">>,
     publishedDate |-> <<[year |-> 2024]>>, author |-> <<"X", ",", " ", "Y">>,
     text |-> <<"text">>, highlights |-> 2]

ExaHitDoiAgain ==
    [title |-> <<"A", " ", "b", ".">>, url |-> <<"h", "t", "t", "p", "s", ":", "/", "/", "d", "o", "i", ".", "o", "r", "g", "/", "1", "0", ".", "1", "/", "A">>,
     publishedDate |-> <<[year |-> 2020]>>, author |-> <<"Z">>,
     text |-> <<"text">>, highlights |-> 0]

ExaHitPlain ==
    [title |-> <<"c">>, url |-> <<"h", "t", "t", "p", "s", ":", "/", "/", "w", "w", "w", ".", "x", ".", "o", "r", "g", "/", "c">>,
     publishedDate |-> <<>>, author |-> <<"Y">>,
     text |-> <<>>, highlights |-> 0]

ExaHitDoiUnknown ==
    [title |-> <<"c">>, url |-> <<"h", "t", "t", "p", "s", ":", "/", "/", "d", "o", "i", ".", "o", "r", "g", "/", "1", "0", ".", "9", "/", "c">>,
     publishedDate |-> <<[year |-> 2020]>>, author |-> <<>>,
     text |-> <<"text">>, highlights |-> 1]

ExaHitDoiB ==
    [title |-> <<"d">>, url |-> <<"h", "t", "t", "p", "s", ":", "/", "/", "d", "o", "i", ".", "o", "r", "g", "/", "1", "0", ".", "2", "/", "b">>,
     publishedDate |-> <<[year |-> 2020]>>, author |-> <<"Y">>,
     text |-> <<"text">>, highlights |-> 0]

\* a hit whose url is the bare resolver address (url is any string:
\* ExaResultSchema), which leaves it without an identifier
ExaHitNoIdentifier ==
    [title |-> <<"c">>, url |-> <<"h", "t", "t", "p", "s", ":", "/", "/", "d", "o", "i", ".", "o", "r", "g", "/">>,
     publishedDate |-> <<[year |-> 2020]>>, author |-> <<"Y">>,
     text |-> <<"text">>, highlights |-> 0]

\* a hit whose url does not parse as a URL
ExaHitBadUrl ==
    [title |-> <<"e">>, url |-> <<"n", "/", "a">>,
     publishedDate |-> <<[year |-> 2020]>>, author |-> <<"Y">>,
     text |-> <<"text">>, highlights |-> 0]

ExaResultLists ==
    { <<>>,
      <<ExaHitBadUrl>>,
      <<ExaHitDoi, ExaHitDoiAgain>>,
      <<ExaHitDoi, ExaHitArxiv>>,
      <<ExaHitPlain>>,
      <<ExaHitDoiUnknown>>,
      <<ExaHitDoiB, ExaHitNoIdentifier>> }

CrossrefWorkA ==
    [DOI |-> Doi1, title |-> << <<"a", " ", "b">> >>,
     author |-> << << [given |-> <<"X">>, family |-> <<"Y">>] >> >>,
     containerTitle |-> <<JournalNature>>, abstract |-> <<>>,
     published |-> <<2019>>, isReferencedByCount |-> <<12>>]

CrossrefWorkC ==
    [DOI |-> Doi2, title |-> << <<"c">> >>,
     author |-> << << [given |-> <<"P">>, family |-> <<"Q">>] >> >>,
     containerTitle |-> <<>>, abstract |-> <<"crossref text">>,
     published |-> <<>>, isReferencedByCount |-> <<7>>]

\* GET /works/{doi}: the work registered under the identifier, if any
CrossrefWorkByDoi(doi) ==
    IF ToLowerCase(doi) = Doi1 THEN <<CrossrefWorkA>>
    ELSE IF ToLowerCase(doi) = Doi2 THEN <<CrossrefWorkC>>
    ELSE <<>>

\* GET /works?query=...&rows=1: the top hit for the title, if any
CrossrefSearch(title) == IF title = <<"c">> THEN <<CrossrefWorkC>> ELSE <<>>

PipelineRandomSamples == {50}

LLMEvaluation ==
    [relevance |-> Num(800), credibility |-> Num(700), impact |-> Num(600),
     source |-> "llm"]

EvaluationRequestOf(lit) ==
    [year |-> lit.year, citationCount |-> lit.citationCount,
     impactFactor |-> lit.impactFactor]

StrUnknown == <<"U", "n", "k", "n", "o", "w", "n">>

\* new Date(n).getFullYear() for a number n of milliseconds below one year
EpochYear == 1970

needsEnhancement(lit) ==
    \/ (Len(lit.authors) = 0 \/ \E i \in 1..Len(lit.authors) : lit.authors[i] = UnknownAuthor)
    \/ lit.journal = <<>>
    \/ lit.journal = StrUnknown
    \/ lit.doi = <<>>
    \/ ~TruthyStr(lit.abstract)

\* `${a.given || ""} ${a.family || ""}`.trim()
CrossrefAuthorName(a) == Trim(a.given \o <<" ">> \o a.family)

EnhanceWith_preferCrossrefAbstract(lit, crossrefWork, withDoi) ==
    LET hasAuthors ==
            Len(lit.authors) # 0
            /\ \A i \in 1..Len(lit.authors) : lit.authors[i] # UnknownAuthor
    IN  [lit EXCEPT
            !.authors =
                IF hasAuthors THEN lit.authors
                ELSE IF crossrefWork.author # <<>>
                THEN [i \in 1..Len(crossrefWork.author[1]) |->
                         CrossrefAuthorName(crossrefWork.author[1][i])]
                ELSE lit.authors,
            !.journal =
                IF lit.journal # <<>> /\ lit.journal # StrUnknown THEN lit.journal
                ELSE IF crossrefWork.containerTitle # <<>>
                        /\ crossrefWork.containerTitle[1] # <<>>
                THEN crossrefWork.containerTitle[1]
                ELSE lit.journal,
            !.abstract =
                OrElseStr(crossrefWork.abstract, lit.abstract),
            !.doi =
                IF ~withDoi \/ lit.doi # <<>> THEN lit.doi
                ELSE IF crossrefWork.DOI # <<>> THEN crossrefWork.DOI
                ELSE lit.doi,
            !.year = IF lit.year # 0 THEN lit.year ELSE EpochYear,
            !.citationCount =
                OrElseNum(lit.citationCount,
                          OrElseNum(crossrefWork.isReferencedByCount,
                                    lit.citationCount))]

\* the record returned by the identifier branch (withDoi = FALSE) and by the
\* title-search branch (withDoi = TRUE) of the enhancement
EnhanceWith(lit, crossrefWork, withDoi) ==
    LET hasAuthors ==
            Len(lit.authors) # 0
            /\ \A i \in 1..Len(lit.authors) : lit.authors[i] # UnknownAuthor
    IN  [lit EXCEPT
            !.authors =
                IF hasAuthors THEN lit.authors
                ELSE IF crossrefWork.author # <<>>
                THEN [i \in 1..Len(crossrefWork.author[1]) |->
                         CrossrefAuthorName(crossrefWork.author[1][i])]
                ELSE lit.authors,
            !.journal =
                IF lit.journal # <<>> /\ lit.journal # StrUnknown THEN lit.journal
                ELSE IF crossrefWork.containerTitle # <<>>
                        /\ crossrefWork.containerTitle[1] # <<>>
                THEN crossrefWork.containerTitle[1]
                ELSE lit.journal,
            !.abstract =
                OrElseStr(lit.abstract, OrElseStr(crossrefWork.abstract, lit.abstract)),
            !.doi =
                IF ~withDoi \/ lit.doi # <<>> THEN lit.doi
                ELSE IF crossrefWork.DOI # <<>> THEN crossrefWork.DOI
                ELSE lit.doi,
            !.year = IF lit.year # 0 THEN lit.year ELSE EpochYear,
            !.citationCount =
                OrElseNum(lit.citationCount,
                          OrElseNum(crossrefWork.isReferencedByCount,
                                    lit.citationCount))]

\* the first call the enhancement of a record issues, if any
EnrichmentStart(lit) ==
    IF ~needsEnhancement(lit) THEN "done"
    ELSE IF lit.doi # <<>> /\ StartsWith(lit.doi, Str10Dot) THEN "doi"
    ELSE "title"

ItemsOf(literature, st) ==
    [i \in 1..Len(literature) |-> [st |-> st, lit |-> literature[i]]]

LitsOf(items) == [i \in 1..Len(items) |-> items[i].lit]

AllAt(w, st) == \A i \in 1..Len(w.items) : w.items[i].st = st

\* lines 435-440: once every evaluation of the sentence has settled, the
\* evaluated list is sorted
RankSentence(w) ==
    IF ~w.ranked /\ AllAt(w, "evaluated")
    THEN [ranked |-> TRUE,
          items |-> ItemsOf(sortByRelevanceAndQuality(LitsOf(w.items)),
                            "evaluated")]
    ELSE w

\* lines 450-481: once every sentence is ranked, each record either is
\* returned as it is or issues its first Crossref call
StartEnhancement(wk) ==
    IF \A s \in DOMAIN wk : wk[s].ranked /\ AllAt(wk[s], "evaluated")
    THEN [s \in DOMAIN wk |->
             [wk[s] EXCEPT !.items =
                 [i \in 1..Len(wk[s].items) |->
                     [st |-> EnrichmentStart(wk[s].items[i].lit),
                      lit |-> wk[s].items[i].lit]]]]
    ELSE wk

\* the continuations that run as soon as the awaited promises have settled
Settle(wk) == StartEnhancement([s \in DOMAIN wk |-> RankSentence(wk[s])])

Finished(wk) == \A s \in DOMAIN wk : wk[s].ranked /\ AllAt(wk[s], "done")

ValidLiterature(lit) ==
    lit.evaluation # <<>> =>
        /\ IsScore(lit.evaluation[1].relevance)
        /\ IsScore(lit.evaluation[1].credibility)
        /\ IsScore(lit.evaluation[1].impact)

FinalResponse_zeroBasedIndex(wk, sents) ==
    LET finalResults ==
            [s \in 1..Len(sents) |->
                [sentence |-> sents[s], sentenceIndex |-> s - 1,
                 literature |-> LitsOf(wk[s].items)]]
    IN  IF \A s \in 1..Len(sents) :
              \A i \in 1..Len(finalResults[s].literature) :
                  ValidLiterature(finalResults[s].literature[i])
        THEN [status |-> 200, kind |-> "results", results |-> finalResults]
        ELSE [status |-> 500, kind |-> "search-service-failed", results |-> <<>>]

\* lines 551-570: the final response, checked against FinalResponseSchema
FinalResponse(wk, sents) ==
    LET finalResults ==
            [s \in 1..Len(sents) |->
                [sentence |-> sents[s], sentenceIndex |-> (s - 1) + 1,
                 literature |-> LitsOf(wk[s].items)]]
    IN  IF \A s \in 1..Len(sents) :
              \A i \in 1..Len(finalResults[s].literature) :
                  ValidLiterature(finalResults[s].literature[i])
        THEN [status |-> 200, kind |-> "results", results |-> finalResults]
        ELSE [status |-> 500, kind |-> "search-service-failed", results |-> <<>>]

ErrorResponse(status, kind) == [status |-> status, kind |-> kind, results |-> <<>>]

\* response' and pc' once the work of the request stands at wk
Conclude(wk) ==
    IF Finished(wk)
    THEN response' = <<FinalResponse(wk, sentences)>> /\ pc' = "done"
    ELSE response' = <<>> /\ pc' = "processing"

RECURSIVE CountBefore(_, _)
CountBefore(exa, s) ==
    IF s <= 1 THEN 0 ELSE Len(exa[s - 1].results) + CountBefore(exa, s - 1)

\* lines 393-433: per sentence, convert the hits (literatureId++ runs over
\* the sentences in order), deduplicate, and issue one evaluation call per
\* record; without OPENROUTER_API_KEY each call returns the fallback at once
StartProcessing(exa, random) ==
    [s \in DOMAIN exa |->
        LET literature ==
                [j \in 1..Len(exa[s].results) |->
                    convertExaResultToLiterature(exa[s].results[j],
                                                 CountBefore(exa, s) + j)]
            deduplicatedLiterature == deduplicate(literature)
        IN  [ranked |-> FALSE,
             items |->
                IF openRouterKey
                THEN ItemsOf(deduplicatedLiterature, "evaluating")
                ELSE [i \in 1..Len(deduplicatedLiterature) |->
                        [st |-> "evaluated",
                         lit |-> [deduplicatedLiterature[i] EXCEPT
                                    !.evaluation =
                                       <<getFallbackEvaluation(
                                           EvaluationRequestOf(deduplicatedLiterature[i]),
                                           random)>>]]]]]

(***************************************************************************)
(* SentenceSplitService                                                    *)
(***************************************************************************)
\* [.!?] and their full-width forms
IsTerminator(c) == c \in {".", "!", "?"}

\* normalized.match(/[^T]+[T]?/g), T the terminators: maximal runs of other
\* characters, each with the terminator that follows it, if any
RECURSIVE MatchSentences(_, _, _)
MatchSentences(s, cur, acc) ==
    IF s = <<>> THEN (IF cur = <<>> THEN acc ELSE Append(acc, cur))
    ELSE IF IsTerminator(Head(s))
         THEN IF cur = <<>> THEN MatchSentences(Tail(s), <<>>, acc)
              ELSE MatchSentences(Tail(s), <<>>, Append(acc, cur \o <<Head(s)>>))
         ELSE MatchSentences(Tail(s), cur \o <<Head(s)>>, acc)

\* s.replace(/[;\n]+$/, '') (and the full-width semicolon)
RECURSIVE StripTrailingSeparators(_)
StripTrailingSeparators(s) ==
    IF s # <<>> /\ s[Len(s)] \in {";", "\n"}
    THEN StripTrailingSeparators(SubSeq(s, 1, Len(s) - 1))
    ELSE s

\* s.replace(/[;\n]+$/, '').trim() || s
CleanSentence(s) ==
    IF Trim(StripTrailingSeparators(s)) # <<>>
    THEN Trim(StripTrailingSeparators(s))
    ELSE s

NonEmptyString(s) == Len(s) > 0

AtLeast2(s) == Len(s) >= 2

AtLeast5(s) == Len(s) >= 5

MapTrim(xs) == [i \in 1..Len(xs) |-> Trim(xs[i])]

\* SentenceSplitService.fallbackSplit (\r\n -> \n is subsumed by \s+ -> ' ')
fallbackSplit(text) ==
    LET normalized == Trim(CollapseWhitespace(text))
        matches == MatchSentences(normalized, <<>>, <<>>)
        trimmed == SelectSeq(MapTrim(matches), NonEmptyString)
        cleaned == [i \in 1..Len(trimmed) |-> CleanSentence(trimmed[i])]
    IN  SelectSeq(cleaned, AtLeast2)

\* the "sentences" array of an answer of the LLM that follows the prompt
LLMSentences(text) == fallbackSplit(text)

SplitOutcomes == {"ok", "failed"}

\* SentenceSplitService.splitIntoSentences: without OPENROUTER_API_KEY the
\* programmatic split; otherwise one LLM call, whose answer is trimmed and
\* filtered, with the programmatic split on failure or on no sentence left
splitIntoSentences(text, outcome) ==
    IF ~openRouterKey THEN fallbackSplit(text)
    ELSE IF outcome = "ok"
         THEN LET llmSentences == SelectSeq(MapTrim(LLMSentences(text)), AtLeast5)
              IN  IF Len(llmSentences) = 0 THEN fallbackSplit(text)
                  ELSE llmSentences
         ELSE fallbackSplit(text)

TextPiece(i) ==
    IF i = 1 THEN <<"a", "b", "c", "d", ".">>
    ELSE IF i = 2 THEN <<" ", "e", "f", "!">>
    ELSE <<" ", "g", "h", "i", "j", "k", ";">>

RECURSIVE TextOfPieces(_)
TextOfPieces(n) == IF n = 0 THEN <<>> ELSE TextOfPieces(n - 1) \o TextPiece(n)

\* request texts: the empty text, a text too short to hold a sentence, and
\* texts of 1..MaxSentences sentences
RequestTexts ==
    {<<>>, <<"a">>} \cup { TextOfPieces(n) : n \in 1..MaxSentences }

\* request bodies: not JSON, JSON without a string text, JSON with a text
RequestBodies ==
    {[json |-> FALSE, text |-> <<>>], [json |-> TRUE, text |-> <<>>]}
    \cup { [json |-> TRUE, text |-> <<t>>] : t \in RequestTexts }

InitRoute ==
    /\ pc = "start"
    /\ body \in RequestBodies
    /\ exaApiKey \in BOOLEAN
    /\ openRouterKey \in BOOLEAN
    /\ crossrefUp \in BOOLEAN
    /\ sentences = <<>>
    /\ exaSearch = <<>>
    /\ work = <<>>
    /\ response = <<>>
    /\ op = "init"
    /\ LibIdle
    /\ EvalIdle
    /\ NetIdle

AfterSplit_emptyCheckFirst(sents) ==
    /\ sentences' = sents
    /\ IF Len(sents) = 0
       THEN /\ response' = <<ErrorResponse(200, "empty-api1-api2")>>
            /\ pc' = "done"
            /\ UNCHANGED exaSearch
       ELSE IF ~exaApiKey
       THEN /\ response' = <<ErrorResponse(500, "exa-key-not-configured")>>
            /\ pc' = "done"
            /\ UNCHANGED exaSearch
       ELSE /\ exaSearch' = [s \in 1..Len(sents) |->
                                [st |-> "running", attempt |-> 0,
                                 results |-> <<>>]]
            /\ pc' = "searching"
            /\ UNCHANGED response

\* lines 344-370, with sents the split sentences: check the credential,
\* short-circuit on no sentences, else start one searchWithRetry per sentence
AfterSplit(sents) ==
    /\ sentences' = sents
    /\ IF ~exaApiKey
       THEN /\ response' = <<ErrorResponse(500, "exa-key-not-configured")>>
            /\ pc' = "done"
            /\ UNCHANGED exaSearch
       ELSE IF Len(sents) = 0
       THEN /\ response' = <<ErrorResponse(200, "empty-api1-api2")>>
            /\ pc' = "done"
            /\ UNCHANGED exaSearch
       ELSE /\ exaSearch' = [s \in 1..Len(sents) |->
                                [st |-> "running", attempt |-> 0,
                                 results |-> <<>>]]
            /\ pc' = "searching"
            /\ UNCHANGED response

\* lines 334-342 and 582-596: read and validate the body (a body that is
\* not JSON makes request.json() throw, which is no ZodError), then call
\* splitIntoSentences, which returns at once without OPENROUTER_API_KEY and
\* otherwise sends the text to the LLM
ReceiveRequest ==
    /\ pc = "start"
    /\ IF ~body.json
       THEN /\ response' = <<ErrorResponse(500, "internal-server-error")>>
            /\ pc' = "done"
            /\ UNCHANGED <<sentences, exaSearch>>
       ELSE IF body.text = <<>>
       THEN /\ response' = <<ErrorResponse(400, "invalid-request-format")>>
            /\ pc' = "done"
            /\ UNCHANGED <<sentences, exaSearch>>
       ELSE IF openRouterKey
       THEN /\ pc' = "splitting"
            /\ UNCHANGED <<sentences, exaSearch, response>>
       ELSE AfterSplit(splitIntoSentences(body.text[1], "ok"))
    /\ UNCHANGED <<work, envVars, op, libVars, evalVars, netVars>>

\* the LLM call of splitIntoSentences returns or fails
SplitCompletes ==
    /\ pc = "splitting"
    /\ \E outcome \in SplitOutcomes :
          AfterSplit(splitIntoSentences(body.text[1], outcome))
    /\ UNCHANGED <<work, envVars, op, libVars, evalVars, netVars>>

\* exaService.ts 118-120: an attempt of sentence s returns its hits (the
\* loop counter is local to searchWithRetry and is gone with the return);
\* when it is the last search to settle, Promise.all resolves and step 2
\* starts
ExaSearchSucceeds(s) ==
    /\ pc = "searching"
    /\ exaSearch[s].st = "running"
    /\ \E results \in ExaResultLists, random \in PipelineRandomSamples :
          /\ exaSearch' = [exaSearch EXCEPT
                              ![s] = [st |-> "ok", attempt |-> 0,
                                      results |-> results]]
          /\ IF \A t \in DOMAIN exaSearch : exaSearch'[t].st = "ok"
             THEN /\ work' = Settle(StartProcessing(exaSearch', random))
                  /\ Conclude(work')
             ELSE UNCHANGED <<work, response, pc>>
    /\ UNCHANGED <<sentences, envVars, op, libVars, evalVars, netVars>>

\* exaService.ts 121-132: an attempt of sentence s throws; it is retried
\* after a delay, and after the last attempt the error is rethrown, which
\* rejects Promise.all and ends the request in the catch of lines 571-581
ExaSearchFails(s) ==
    /\ pc = "searching"
    /\ exaSearch[s].st = "running"
    /\ IF exaSearch[s].attempt < ExaMaxRetries - 1
       THEN /\ exaSearch' = [exaSearch EXCEPT ![s].st = "backoff"]
            /\ UNCHANGED <<response, pc>>
       ELSE /\ exaSearch' = [exaSearch EXCEPT ![s].st = "failed"]
            /\ response' = <<ErrorResponse(500, "search-service-failed")>>
            /\ pc' = "done"
    /\ UNCHANGED <<work, sentences, envVars, op, libVars, evalVars, netVars>>

\* exaService.ts 127: the retry delay of sentence s has elapsed
ExaRetry(s) ==
    /\ pc = "searching"
    /\ exaSearch[s].st = "backoff"
    /\ exaSearch' = [exaSearch EXCEPT ![s].st = "running",
                                      ![s].attempt = @ + 1]
    /\ UNCHANGED <<work, response, pc, sentences, envVars, op, libVars, evalVars, netVars>>

\* the ways one call of evaluateLiterature can end once the request is sent
EvaluationOutcomes == {"ok", "failed"}

\* evaluationService.ts 54-179: the LLM's evaluation when the call succeeds,
\* the fallback on a missing key and on every failure; nothing is thrown
evaluateLiterature(req, outcome, random) ==
    IF ~openRouterKey THEN getFallbackEvaluation(req, random)
    ELSE IF outcome = "ok" THEN LLMEvaluation
    ELSE getFallbackEvaluation(req, random)

EvaluateRecord_dropOnFailure(lit, outcome, random) ==
    IF outcome = "ok"
    THEN <<[lit EXCEPT !.evaluation =
               <<evaluateLiterature(EvaluationRequestOf(lit), outcome, random)>>]>>
    ELSE <<>>

\* lines 408-432: the element the evaluation of one record contributes to
\* evaluatedLiterature
EvaluateRecord(lit, outcome, random) ==
    <<[lit EXCEPT !.evaluation =
          <<evaluateLiterature(EvaluationRequestOf(lit), outcome, random)>>]>>

\* lines 421-424: evaluateLiterature of record i of sentence s returns, with
\* the LLM's evaluation or with the fallback (it never throws)
EvaluationCompletes(s, i) ==
    /\ pc = "processing"
    /\ work[s].items[i].st = "evaluating"
    /\ \E outcome \in EvaluationOutcomes, random \in PipelineRandomSamples :
          LET evaluated == EvaluateRecord(work[s].items[i].lit, outcome, random)
              before == SubSeq(work[s].items, 1, i - 1)
              after == SubSeq(work[s].items, i + 1, Len(work[s].items))
          IN  work' = Settle([work EXCEPT ![s].items =
                          before
                          \o [k \in 1..Len(evaluated) |->
                                 [st |-> "evaluated", lit |-> evaluated[k]]]
                          \o after])
    /\ Conclude(work')
    /\ UNCHANGED <<exaSearch, sentences, envVars, op, libVars, evalVars, netVars>>

\* lines 485-502: getWorksByDois([lit.doi]) returns; a work enhances the
\* record, null (not found, or any failure) leads on to the title search
DoiLookupCompletes(s, i) ==
    /\ pc = "processing"
    /\ work[s].items[i].st = "doi"
    /\ LET lit == work[s].items[i].lit
           doiResults == IF crossrefUp THEN CrossrefWorkByDoi(lit.doi) ELSE <<>>
       IN  work' = [work EXCEPT ![s].items[i] =
                      IF doiResults # <<>>
                      THEN [st |-> "done",
                            lit |-> EnhanceWith(lit, doiResults[1], FALSE)]
                      ELSE [st |-> "title", lit |-> lit]]
    /\ Conclude(work')
    /\ UNCHANGED <<exaSearch, sentences, envVars, op, libVars, evalVars, netVars>>

\* lines 505-532: searchByBibliographic(lit.title, {rows: 1}) returns its
\* top hit, which enhances the record, or nothing, or throws
TitleSearchCompletes(s, i) ==
    /\ pc = "processing"
    /\ work[s].items[i].st = "title"
    /\ LET lit == work[s].items[i].lit
           bibliographicResults ==
               IF crossrefUp THEN CrossrefSearch(lit.title) ELSE <<>>
       IN  work' = [work EXCEPT ![s].items[i] =
                      [st |-> "done",
                       lit |-> IF bibliographicResults # <<>>
                               THEN EnhanceWith(lit, bibliographicResults[1], TRUE)
                               ELSE lit]]
    /\ Conclude(work')
    /\ UNCHANGED <<exaSearch, sentences, envVars, op, libVars, evalVars, netVars>>

Next ==
    \/ ReceiveRequest
    \/ SplitCompletes
    \/ \E s \in DOMAIN exaSearch : ExaSearchSucceeds(s)
    \/ \E s \in DOMAIN exaSearch : ExaSearchFails(s)
    \/ \E s \in DOMAIN exaSearch : ExaRetry(s)
    \/ \E s \in DOMAIN work : \E i \in 1..Len(work[s].items) :
          EvaluationCompletes(s, i)
    \/ \E s \in DOMAIN work : \E i \in 1..Len(work[s].items) :
          DoiLookupCompletes(s, i)
    \/ \E s \in DOMAIN work : \E i \in 1..Len(work[s].items) :
          TitleSearchCompletes(s, i)

Spec == InitRoute /\ [][Next]_vars

\* C1: when the neural-provider search of one sentence has failed after its
\* retries while the searches of the other sentences have succeeded, the
\* request still answers with one result per sentence, the failed sentence
\* having zero candidates: the batch is not aborted.
C1_FailedSearchIsZeroCandidates ==
    \A s \in DOMAIN exaSearch :
        ( /\ pc = "done"
          /\ Len(sentences) >= 2
          /\ exaSearch[s].st = "failed"
          /\ \A t \in DOMAIN exaSearch \ {s} : exaSearch[t].st = "ok" )
        => /\ response[1].status = 200
           /\ response[1].kind = "results"
           /\ Len(response[1].results) = Len(sentences)
           /\ response[1].results[s].literature = <<>>

\* C4: in the final response every sentence's literature list is in the
\* order sortByRelevanceAndQuality gives for the records as returned, so no
\* record ranks strictly before a record placed ahead of it.
C4_ResponseInRankingOrder ==
    (pc = "done" /\ response[1].kind = "results") =>
        \A s \in 1..Len(response[1].results) :
            LET literature == response[1].results[s].literature
            IN  /\ sortByRelevanceAndQuality(literature) = literature
                /\ \A i, j \in 1..Len(literature) :
                      i < j => ~RanksBefore(literature[j], literature[i])

\* an evaluation call has been issued for the record
EvaluationIssued(item) == item.st = "evaluating" \/ item.lit.evaluation # <<>>

\* C5: within a sentence, deduplication starts only after the sentence's
\* search has settled, and no evaluation call for a record of the sentence
\* is issued before the sentence's list has been ranked.
C5_StagesInSequence ==
    \A s \in DOMAIN work :
        /\ exaSearch[s].st = "ok"
        /\ (\E i \in 1..Len(work[s].items) : EvaluationIssued(work[s].items[i]))
              => work[s].ranked

\* C11: sortByQuality is pure: after the call the sequence that was passed
\* to it still holds the same records in the same order as before the call.
C11_SortLeavesInputUnchanged ==
    [][SortByQuality => lits' = lits]_vars

\* the records that enter the evaluation stage of sentence s
EvaluationInput(s) ==
    deduplicate([j \in 1..Len(exaSearch[s].results) |->
                    convertExaResultToLiterature(exaSearch[s].results[j],
                                                 CountBefore(exaSearch, s) + j)])

IsEvaluationOf(lit, ev) ==
    \/ openRouterKey /\ ev = LLMEvaluation
    \/ \E r \in PipelineRandomSamples :
          ev = getFallbackEvaluation(EvaluationRequestOf(lit), r)

C13_FallbackDeterministic ==
    op = "fallback-again" =>
        /\ evaluation[1].relevance = evaluation[2].relevance
        /\ evaluation[1].credibility = evaluation[2].credibility
        /\ evaluation[1].impact = evaluation[2].impact

(***************************************************************************)
(* The dual bibliographic search of one sentence (the revision of the      *)
(* route in exaService.ts): a free-text search, then a title search, both  *)
(* inside one try block.                                                   *)
(***************************************************************************)
MaxRows == 2

StrUntitled == <<"U", "n", "t", "i", "t", "l", "e", "d">>

\* the same work as CrossrefWorkA, its identifier registered in upper case
CrossrefWorkAUpper ==
    [CrossrefWorkA EXCEPT !.DOI = <<"1", "0", ".", "1", "/", "A">>,
                          !.author = << << [given |-> <<>>, family |-> <<"Y">>] >> >>,
                          !.isReferencedByCount = <<0>>]

CrossrefWorks == {CrossrefWorkA, CrossrefWorkC, CrossrefWorkAUpper}

\* the result lists a search can return: up to MaxRows distinct works
CrossrefResultLists ==
    { ws \in SeqsUpTo(CrossrefWorks, MaxRows) :
        \A i, j \in 1..Len(ws) : i # j => ws[i] # ws[j] }

\* CrossrefService.formatAuthors
formatAuthors(authors) ==
    IF authors = <<>> \/ Len(authors[1]) = 0 THEN <<UnknownAuthor>>
    ELSE [i \in 1..Len(authors[1]) |->
            LET given == authors[1][i].given
                family == authors[1][i].family
            IN  IF given # <<>> /\ family # <<>> THEN given \o <<" ">> \o family
                ELSE IF family # <<>> THEN family
                ELSE IF given # <<>> THEN given
                ELSE UnknownAuthor]

\* CrossrefService.extractYear
extractYear(crossrefWork) ==
    IF crossrefWork.published # <<>> /\ crossrefWork.published[1] # 0
    THEN crossrefWork.published[1]
    ELSE CurrentYear

\* CrossrefService.extractJournal
extractJournal(crossrefWork) ==
    IF crossrefWork.containerTitle # <<>> THEN crossrefWork.containerTitle[1]
    ELSE UnknownJournal

\* CrossrefService.extractTitle
extractTitle(crossrefWork) ==
    IF crossrefWork.title # <<>> THEN crossrefWork.title[1] ELSE StrUntitled

convertCrossrefToLiterature(crossrefWork, id) ==
    [id |-> id, title |-> extractTitle(crossrefWork),
     authors |-> formatAuthors(crossrefWork.author),
     journal |-> extractJournal(crossrefWork),
     year |-> extractYear(crossrefWork),
     doi |-> IF crossrefWork.DOI # <<>> THEN crossrefWork.DOI ELSE NA,
     verified |-> TRUE,
     abstract |-> OrElseStr(crossrefWork.abstract, <<>>),
     citationCount |-> OrElseNum(crossrefWork.isReferencedByCount, <<>>),
     impactFactor |-> <<>>, supportingPages |-> <<>>, evaluation |-> <<>>]

Slice(xs, n) == SubSeq(xs, 1, IF Len(xs) < n THEN Len(xs) ELSE n)

\* exaService.ts 353-360: combine the two result lists, convert with the
\* index in the combined list as id, deduplicate, keep the top 3
DualSearchResult(bibliographicResults, titleResults) ==
    LET combinedResults == bibliographicResults \o titleResults
    IN  Slice(deduplicate([i \in 1..Len(combinedResults) |->
                  convertCrossrefToLiterature(combinedResults[i], i - 1)]), 3)

InitDual ==
    /\ op = "dual-start"
    /\ lits = NoLits
    /\ ret = NoLits
    /\ ret2 = NoLits
    /\ EvalIdle
    /\ RouteIdle
    /\ NetIdle

\* line 348: searchByBibliographic(sentence, 3) returns its works
DualBibliographicReturns ==
    /\ op = "dual-start"
    /\ \E bibliographicResults \in CrossrefResultLists :
          lits' = bibliographicResults
    /\ op' = "dual-title"
    /\ UNCHANGED <<ret, ret2, evalVars, routeVars, netVars>>

\* line 348 throws: control goes to the catch of lines 362-365, which
\* returns [] for the sentence; the title search is never issued
DualBibliographicThrows ==
    /\ op = "dual-start"
    /\ ret2' = <<>>
    /\ op' = "dual-bibliographic-failed"
    /\ UNCHANGED <<lits, ret, evalVars, routeVars, netVars>>

\* line 351: searchByTitle(sentence, 2) returns its works; lines 353-360
DualTitleReturns ==
    /\ op = "dual-title"
    /\ \E titleResults \in CrossrefResultLists :
          /\ ret' = titleResults
          /\ ret2' = DualSearchResult(lits, titleResults)
    /\ op' = "dual-done"
    /\ UNCHANGED <<lits, evalVars, routeVars, netVars>>

\* line 351 throws: the catch of lines 362-365 returns [] for the sentence
DualTitleThrows ==
    /\ op = "dual-title"
    /\ ret2' = <<>>
    /\ op' = "dual-title-failed"
    /\ UNCHANGED <<lits, ret, evalVars, routeVars, netVars>>

NextDual ==
    \/ DualBibliographicReturns
    \/ DualBibliographicThrows
    \/ DualTitleReturns
    \/ DualTitleThrows

SpecDual == InitDual /\ [][NextDual]_vars

\* C14: when exactly one of a sentence's two bibliographic query strategies
\* fails, an empty result is substituted for that call only: the sentence's
\* result is the one built from the other strategy's results.
C14_StrategyFailureIsolated ==
    op = "dual-title-failed" => ret2 = DualSearchResult(lits, <<>>)

\* C15: a response with results has exactly one entry per input sentence;
\* entry i (counted from 0) carries the i-th split sentence, sentenceIndex
\* i + 1 and the records found for that sentence, whatever the order in
\* which the searches, evaluations and enrichments completed.
C15_SentenceIndexStable ==
    (pc = "done" /\ response[1].kind = "results") =>
        /\ Len(response[1].results) = Len(sentences)
        /\ \A s \in 1..Len(sentences) :
              \A entry \in {response[1].results[s]}, i \in {s - 1},
                 input \in {EvaluationInput(s)} :
                  /\ entry.sentence = sentences[s]
                  /\ entry.sentenceIndex = i + 1
                  /\ { entry.literature[k].id : k \in 1..Len(entry.literature) }
                        = { input[k].id : k \in 1..Len(input) }

\* two sentences answered, each with the records of its own search, the
\* second sentence's evaluation having returned before the first's
C15_Witness ==
    /\ pc = "done"
    /\ response[1].kind = "results"
    /\ Len(sentences) = 2
    /\ Len(response[1].results[1].literature) = 2
    /\ Len(response[1].results[2].literature) = 1
    /\ response[1].results[1].literature[1].evaluation[1].source = "fallback"
    /\ response[1].results[2].literature[1].evaluation[1].source = "llm"

\* C16: in every response, no two entries of one sentence's literature list
\* share a key, the key being computed from the entries as returned.
C16_NoSharedKeyInResponse ==
    (pc = "done" /\ response[1].kind = "results") =>
        \A s \in 1..Len(response[1].results) :
            LET literature == response[1].results[s].literature
            IN  \A i, j \in 1..Len(literature) :
                    i # j => generateKey(literature[i]) # generateKey(literature[j])

EmptyTextBody == [json |-> TRUE, text |-> << <<>> >>]

\* C17: a request with input {text: ""} yields zero sentences and answers
\* with an empty result list, and no provider call (sentence-splitting or
\* evaluation LLM call, neural search, bibliographic search or lookup) is
\* issued while handling it.
C17_EmptyTextNoProviderCall ==
    body = EmptyTextBody =>
        /\ pc \in {"start", "done"}
        /\ pc = "done" =>
              /\ sentences = <<>>
              /\ response[1].status = 200
              /\ response[1].results = <<>>

WellFormedBody == body.json /\ body.text # <<>>

\* C18: with the neural search credential absent, every well-formed request
\* gets the same answer whatever the splitter and the other providers do:
\* the error that names the missing configuration, never an ordinary answer
\* with results or with none; and no neural search is ever started.
C18_MissingCredentialSignalled ==
    (~exaApiKey /\ WellFormedBody) =>
        /\ pc \in {"start", "splitting", "done"}
        /\ exaSearch = <<>>
        /\ pc = "done" =>
              response = <<ErrorResponse(500, "exa-key-not-configured")>>

\* the credential is absent and a request whose text the LLM has split into
\* a sentence has been answered
C18_Witness ==
    /\ ~exaApiKey
    /\ openRouterKey
    /\ WellFormedBody
    /\ pc = "done"
    /\ Len(sentences) = 1
    /\ response[1].status = 500

\* C19: a request whose body is malformed (not JSON, or without a string
\* text field) is rejected as a whole with the validation error, and no
\* sentence splitting, search, enrichment or evaluation is started for it.
C19_MalformedBodyRejected ==
    ~WellFormedBody =>
        /\ pc \in {"start", "done"}
        /\ sentences = <<>> /\ exaSearch = <<>> /\ work = <<>>
        /\ pc = "done" =>
              response = <<ErrorResponse(400, "invalid-request-format")>>

RealAuthors(lit) ==
    Len(lit.authors) # 0
    /\ \A i \in 1..Len(lit.authors) : lit.authors[i] # UnknownAuthor

\* every field that was populated in the record before holds the same value
\* in the record after
PopulatedFieldsKept(before, after) ==
    /\ after.title = before.title
    /\ after.year = before.year
    /\ RealAuthors(before) => after.authors = before.authors
    /\ (before.journal # <<>> /\ before.journal # StrUnknown)
          => after.journal = before.journal
    /\ before.doi # <<>> => after.doi = before.doi
    /\ before.abstract # <<>> => after.abstract = before.abstract
    /\ before.citationCount # <<>> => after.citationCount = before.citationCount

\* C20: enrichment only fills fields that were missing: for every record,
\* each field the primary provider had populated (real authors, real
\* journal, identifier, abstract, year, citationCount, title) has the same
\* value after enrichment, by the identifier lookup or by the title search.
C20_EnrichmentKeepsPopulated ==
    \A s \in DOMAIN work :
        \A input \in {EvaluationInput(s)}, items \in {work[s].items} :
            \A i \in 1..Len(input), k \in 1..Len(items) :
                items[k].lit.id = input[i].id
                    => PopulatedFieldsKept(input[i], items[k].lit)

\* a response with a record backfilled by the identifier lookup (authors
\* filled, journal and year kept) and a record backfilled by the title
\* search (identifier filled, abstract and authors kept)
C20_Witness ==
    /\ pc = "done"
    /\ response[1].kind = "results"
    /\ \E s \in DOMAIN work : \E k \in 1..Len(work[s].items) :
          LET lit == work[s].items[k].lit
          IN  /\ lit.doi = Doi1
              /\ lit.authors = << <<"X", " ", "Y">> >>
              /\ lit.citationCount = <<12>>
              /\ lit.journal # JournalNature
              /\ lit.year = 2020
    /\ \E s \in DOMAIN work : \E k \in 1..Len(work[s].items) :
          LET lit == work[s].items[k].lit
          IN  /\ lit.doi = Doi2
              /\ lit.title = <<"c">>
              /\ lit.abstract = <<"text">>
              /\ lit.authors = << <<"Y">> >>

\* the record is missing a critical field: no real author, no real journal
\* (none, or only the adapter's placeholder), no identifier, or no abstract
MissingCriticalField(lit) ==
    \/ ~RealAuthors(lit)
    \/ lit.journal = <<>> \/ lit.journal = UnknownJournal
    \/ lit.doi = <<>>
    \/ lit.abstract = <<>>

\* the enrichment pass had already reached the record before this step
InEnrichmentBefore(s, id) ==
    /\ s \in DOMAIN work
    /\ \E j \in 1..Len(work[s].items) :
          /\ work[s].items[j].lit.id = id
          /\ work[s].items[j].st \in {"doi", "title", "done"}

\* C21: when the enrichment pass reaches a record that is missing a critical
\* field, it attempts a backfill: an identifier lookup when the identifier
\* is plausible, otherwise a title search; only a record that misses nothing
\* is passed through without a call.  A record with only the adapter's
\* placeholder journal name counts as missing its journal.
C21_BackfillAttempted ==
    [][\A s \in DOMAIN work' : \A k \in 1..Len(work'[s].items) :
          LET item == work'[s].items[k]
          IN  ~InEnrichmentBefore(s, item.lit.id) =>
                /\ item.st = "done" => ~MissingCriticalField(item.lit)
                /\ item.st = "doi" =>
                      MissingCriticalField(item.lit)
                      /\ StartsWith(item.lit.doi, Str10Dot)
                /\ item.st = "title" =>
                      MissingCriticalField(item.lit)
                      /\ ~StartsWith(item.lit.doi, Str10Dot)]_vars

(***************************************************************************)
(* CrossrefService over BaseService: one request to the bibliographic      *)
(* provider.  A search goes through makeRequestWithRetry and               *)
(* BaseService.makeRequest; an identifier lookup is one fetch in           *)
(* getWorkByDoi.                                                           *)
(***************************************************************************)
RECURSIVE Pow(_, _)
Pow(b, e) == IF e = 0 THEN 1 ELSE b * Pow(b, e - 1)

MaxRetriesBound == 3

\* the retryConfig makeRequestWithRetry passes to makeRequest
CrossrefRetryConfig == [maxRetries |-> 3, baseDelay |-> 1000, backoffMultiplier |-> 2]

\* the retryConfig values a caller of makeRequest can pass
RetryConfigs ==
    [maxRetries : 0..MaxRetriesBound, baseDelay : {500, 1000},
     backoffMultiplier : {2, 3}]

NoRetryConfig == [maxRetries |-> 0, baseDelay |-> 0, backoffMultiplier |-> 1]

\* a request just sent: by "search" (makeRequestWithRetry), by "lookup"
\* (getWorkByDoi), or by another caller of makeRequest
NewRequest(caller, retryConfig) ==
    [caller |-> caller, retryConfig |-> retryConfig, attempt |-> 0,
     st |-> "in-flight", calls |-> 1, waits |-> <<>>, result |-> "none"]

InitRetry ==
    /\ net \in { NewRequest("search", CrossrefRetryConfig),
                 NewRequest("lookup", NoRetryConfig) }
               \cup { NewRequest("makeRequest", c) : c \in RetryConfigs }
    /\ op = "init"
    /\ LibIdle
    /\ EvalIdle
    /\ RouteIdle

\* part_001 39-41: executeRequest returns a response
RequestSucceeds ==
    /\ net # NoNet
    /\ net.caller # "lookup"
    /\ net.st = "in-flight"
    /\ net' = [net EXCEPT !.st = "returned", !.result = "data"]
    /\ UNCHANGED <<op, libVars, evalVars, routeVars>>

\* part_001 42-50 and 53-57: executeRequest throws (network error, non-2xx,
\* timeout); wait baseDelay * backoffMultiplier^attempt and go on while
\* attempt < maxRetries, else return {success: false}, which
\* makeRequestWithRetry throws to its caller
RequestFails ==
    /\ net # NoNet
    /\ net.caller # "lookup"
    /\ net.st = "in-flight"
    /\ IF net.attempt < net.retryConfig.maxRetries
       THEN net' = [net EXCEPT
                      !.st = "waiting",
                      !.waits = Append(@, net.retryConfig.baseDelay
                                   * Pow(net.retryConfig.backoffMultiplier,
                                         net.attempt))]
       ELSE net' = [net EXCEPT !.st = "returned", !.result = "error"]
    /\ UNCHANGED <<op, libVars, evalVars, routeVars>>

\* part_001 47-48: the delay has elapsed, the loop makes the next attempt
RetryDelayElapses ==
    /\ net # NoNet
    /\ net.st = "waiting"
    /\ net' = [net EXCEPT !.st = "in-flight", !.attempt = @ + 1,
                          !.calls = @ + 1]
    /\ UNCHANGED <<op, libVars, evalVars, routeVars>>

\* part_009 902-925: the fetch of getWorkByDoi returns the work, or 404
LookupSucceeds ==
    /\ net # NoNet
    /\ net.caller = "lookup"
    /\ net.st = "in-flight"
    /\ \E result \in {"work", "null"} :
          net' = [net EXCEPT !.st = "returned", !.result = result]
    /\ UNCHANGED <<op, libVars, evalVars, routeVars>>

\* part_009 926-929: the fetch of getWorkByDoi fails otherwise; the catch
\* logs the error and returns null
LookupFails ==
    /\ net # NoNet
    /\ net.caller = "lookup"
    /\ net.st = "in-flight"
    /\ net' = [net EXCEPT !.st = "returned", !.result = "null-after-error"]
    /\ UNCHANGED <<op, libVars, evalVars, routeVars>>

NextRetry ==
    \/ RequestSucceeds
    \/ RequestFails
    \/ RetryDelayElapses
    \/ LookupSucceeds
    \/ LookupFails

SpecRetry == InitRetry /\ [][NextRetry]_vars

CrossrefBaseDelay == 1000

\* C22: a request of CrossrefService (search or identifier lookup) that
\* keeps failing is retried with exponential backoff and a capped count: at
\* most 3 retries follow the first attempt, the waits before them are 1x,
\* 2x and 4x the base delay, a success stops the retries, and the failure
\* is reported to the caller only after the last retry.
C22_RetriedWithBackoff ==
    (net # NoNet /\ net.caller \in {"search", "lookup"}) =>
        /\ net.calls <= 1 + 3
        /\ Len(net.waits) <= 3
        /\ \A k \in 1..Len(net.waits) :
              net.waits[k] = CrossrefBaseDelay * Pow(2, k - 1)
        /\ net.result \in {"data", "work", "null"} =>
              net.calls = Len(net.waits) + 1
        /\ net.result \in {"error", "null-after-error"} =>
              /\ net.calls = 1 + 3
              /\ net.result = "error"

(***************************************************************************)
(* CrossrefService.getWorksByDois: Promise.all over dois.map.  The map     *)
(* callback runs getWorkByDoi up to its first await, the fetch, for one    *)
(* identifier after the other before any response is handled.              *)
(***************************************************************************)
MaxBatch == 4

BatchDois == {Doi1, Doi2}

\* the lookups of the batch whose fetch was sent and has not settled
InFlight(batch) == {i \in 1..Len(batch.results) : batch.results[i] = "pending"}

InitBatch ==
    /\ \E dois \in SeqsUpTo(BatchDois, MaxBatch) :
          net = [caller |-> "getWorksByDois", dois |-> dois, results |-> <<>>,
                 st |-> "mapping", returned |-> <<>>]
    /\ op = "init"
    /\ LibIdle
    /\ EvalIdle
    /\ RouteIdle

\* dois.map(doi => this.getWorkByDoi(doi)): the next identifier's fetch is
\* sent; after the last one Promise.all waits
BatchStartsLookup ==
    /\ net # NoNet
    /\ net.caller = "getWorksByDois"
    /\ net.st = "mapping"
    /\ IF Len(net.results) < Len(net.dois)
       THEN net' = [net EXCEPT !.results = Append(@, "pending")]
       ELSE net' = [net EXCEPT !.st = "awaiting"]
    /\ UNCHANGED <<op, libVars, evalVars, routeVars>>

\* getWorkByDoi settles: the work, or null on 404 and on any error
BatchLookupSettles ==
    /\ net # NoNet
    /\ net.caller = "getWorksByDois"
    /\ net.st = "awaiting"
    /\ \E i \in InFlight(net) : \E failed \in BOOLEAN :
          LET found == CrossrefWorkByDoi(net.dois[i])
          IN  net' = [net EXCEPT !.results[i] =
                        IF failed \/ found = <<>> THEN "null" ELSE "work"]
    /\ UNCHANGED <<op, libVars, evalVars, routeVars>>

\* Promise.all resolves with the results in the order of dois
BatchReturns ==
    /\ net # NoNet
    /\ net.caller = "getWorksByDois"
    /\ net.st = "awaiting"
    /\ InFlight(net) = {}
    /\ net' = [net EXCEPT !.st = "returned", !.returned = net.results]
    /\ UNCHANGED <<op, libVars, evalVars, routeVars>>

NextBatch ==
    \/ BatchStartsLookup
    \/ BatchLookupSettles
    \/ BatchReturns

SpecBatch == InitBatch /\ [][NextBatch]_vars

\* C23: a batched identifier lookup keeps the number of its requests in
\* flight under a fixed bound that does not grow with the batch: the
\* largest batch is never in flight as a whole.
C23_BoundedConcurrency ==
    (net # NoNet /\ net.caller = "getWorksByDois") =>
        Cardinality(InFlight(net)) < MaxBatch

(***************************************************************************)
(* One external call, from the fetch to the parsed body, with a clock.     *)
(* The kinds are the callers in the code: ExaService.search,               *)
(* BaseService.executeRequest (bibliographic search),                      *)
(* CrossrefService.getWorkByDoi, EvaluationService.evaluateLiterature and  *)
(* OpenRouterService.makeRequest (semantic similarity).                    *)
(***************************************************************************)
MaxTicks == 5

EvaluationTimeout == 20000

DefaultTimeout == 30000

CallKinds ==
    {"neural-search", "bibliographic-search", "identifier-lookup",
     "llm-evaluation", "semantic-similarity"}

\* setTimeout(() => controller.abort(), ...) of the caller, if it has one
CallTimeout(kind) ==
    IF kind = "llm-evaluation" THEN <<EvaluationTimeout>>
    ELSE IF kind = "bibliographic-search" THEN <<DefaultTimeout>>
    ELSE <<>>

\* the callers that read the body of a non-2xx response (response.text())
ReadsErrorBody(kind) == kind \in {"llm-evaluation", "semantic-similarity"}

CallPending(call) == call.phase \in {"headers", "body"}

InitCall ==
    /\ \E kind \in CallKinds :
          net = [caller |-> "call", kind |-> kind, phase |-> "idle",
                 timer |-> "none", elapsed |-> 0, ok |-> TRUE,
                 aborted |-> FALSE, result |-> "none"]
    /\ op = "init"
    /\ LibIdle
    /\ EvalIdle
    /\ RouteIdle

\* the caller arms its timer, if it has one, and sends the request
CallIssued ==
    /\ net # NoNet
    /\ net.caller = "call"
    /\ net.phase = "idle"
    /\ net' = [net EXCEPT
                 !.phase = "headers",
                 !.timer = IF CallTimeout(net.kind) = <<>> THEN "none"
                           ELSE "armed"]
    /\ UNCHANGED <<op, libVars, evalVars, routeVars>>

\* time passes while the call is pending; an armed timer goes off at its
\* timeout, so the clock does not pass it with the timer still armed
CallTick ==
    /\ net # NoNet
    /\ net.caller = "call"
    /\ CallPending(net)
    /\ net.elapsed < MaxTicks * 10000
    /\ net.timer = "armed" => net.elapsed < CallTimeout(net.kind)[1]
    /\ net' = [net EXCEPT !.elapsed = @ + 10000]
    /\ UNCHANGED <<op, libVars, evalVars, routeVars>>

\* the timer callback runs controller.abort(): the fetch rejects with an
\* AbortError and the caller's catch takes over
TimerFires ==
    /\ net # NoNet
    /\ net.caller = "call"
    /\ CallPending(net)
    /\ net.timer = "armed"
    /\ net.elapsed >= CallTimeout(net.kind)[1]
    /\ net' = [net EXCEPT !.timer = "fired", !.aborted = TRUE,
                          !.phase = "failed",
                          !.result = IF net.kind = "llm-evaluation"
                                     THEN "fallback" ELSE "error"]
    /\ UNCHANGED <<op, libVars, evalVars, routeVars>>

\* await fetch(...) resolves with the status line and headers; the callers
\* with a timer run clearTimeout(timeoutId) right after it
ResponseHeadersArrive ==
    /\ net # NoNet
    /\ net.caller = "call"
    /\ net.phase = "headers"
    /\ \E ok \in BOOLEAN :
          net' = [net EXCEPT
                    !.ok = ok,
                    !.timer = IF @ = "armed" THEN "cleared" ELSE @,
                    !.phase = IF ok \/ ReadsErrorBody(net.kind)
                              THEN "body" ELSE "failed",
                    !.result = IF ok \/ ReadsErrorBody(net.kind) THEN "none"
                               ELSE IF net.kind = "identifier-lookup"
                               THEN "null" ELSE "error"]
    /\ UNCHANGED <<op, libVars, evalVars, routeVars>>

\* await fetch(...) rejects (connection refused, reset, DNS)
FetchRejects ==
    /\ net # NoNet
    /\ net.caller = "call"
    /\ net.phase = "headers"
    /\ net' = [net EXCEPT
                 !.timer = IF net.kind = "bibliographic-search" THEN "cleared"
                           ELSE @,
                 !.phase = "failed",
                 !.result = IF net.kind = "llm-evaluation" THEN "fallback"
                            ELSE IF net.kind = "identifier-lookup" THEN "null"
                            ELSE "error"]
    /\ UNCHANGED <<op, libVars, evalVars, routeVars>>

\* await response.json() / response.text() settles
ResponseBodyArrives ==
    /\ net # NoNet
    /\ net.caller = "call"
    /\ net.phase = "body"
    /\ \E readable \in BOOLEAN :
          net' = [net EXCEPT
                    !.phase = IF net.ok /\ readable THEN "done" ELSE "failed",
                    !.result = IF net.ok /\ readable THEN "data"
                               ELSE IF net.kind = "llm-evaluation"
                               THEN "fallback"
                               ELSE IF net.kind = "identifier-lookup"
                               THEN "null" ELSE "error"]
    /\ UNCHANGED <<op, libVars, evalVars, routeVars>>

NextCall ==
    \/ CallIssued
    \/ CallTick
    \/ TimerFires
    \/ ResponseHeadersArrive
    \/ FetchRejects
    \/ ResponseBodyArrives

SpecCall == InitCall /\ [][NextCall]_vars

\* C24: every external call carries a timeout: while a call waits for a
\* remote side that has not answered, a timer is armed that will abort it.
C24_EveryCallHasTimeout ==
    (net # NoNet /\ net.caller = "call" /\ net.phase = "headers") =>
        net.timer = "armed"

\* C28: an LLM evaluation call that is still pending was issued no more
\* than 20 seconds ago, whether it waits for the connection and the
\* response headers or reads the response body.
C28_EvaluationWithinTimeout ==
    (net # NoNet /\ net.caller = "call" /\ net.kind = "llm-evaluation"
       /\ CallPending(net)) =>
        net.elapsed <= EvaluationTimeout

(***************************************************************************)
(* DeduplicationService.calculateCompletenessScore on one record, over     *)
(* every combination of present, empty and absent scored fields.           *)
(***************************************************************************)
ScoreBibs ==
    { [title |-> <<"a">>, authors |-> as, year |-> 2020] :
        as \in {<<>>, << <<"X">> >>, << <<"X">>, <<"Y">> >>} }

ScoreRecords ==
    { MkLiterature(b, d, FALSE, ab, cc, imp, j) :
        b \in ScoreBibs, d \in {<<>>, NA, Doi1},
        ab \in {<<>>, <<"">>, <<"text">>},
        cc \in {<<>>, <<0>>, <<12>>}, imp \in {<<>>, <<0>>, <<3>>},
        j \in {<<>>, UnknownJournal, JournalNature} }

InitScore ==
    /\ lits \in { <<r>> : r \in ScoreRecords }
    /\ ret = NoLits
    /\ ret2 = NoLits
    /\ op = "init"
    /\ EvalIdle
    /\ RouteIdle
    /\ NetIdle

\* const score = this.calculateCompletenessScore(literature)
CompletenessScore ==
    /\ op = "init"
    /\ net = NoNet
    /\ net' = [caller |-> "calculateCompletenessScore",
               score |-> calculateCompletenessScore(lits[1])]
    /\ op' = "score"
    /\ UNCHANGED <<libVars, evalVars, routeVars>>

NextScore == CompletenessScore

SpecScore == InitScore /\ [][NextScore]_vars

\* the points the specification gives a record, field by field
SpecifiedPoints(r) ==
      (IF r.doi # <<>> /\ r.doi # NA THEN 3 ELSE 0)
    + (IF r.abstract # <<>> /\ r.abstract # <<"">> THEN 2 ELSE 0)
    + (IF r.citationCount # <<>> /\ r.citationCount # <<0>> THEN 1 ELSE 0)
    + (IF r.impactFactor # <<>> /\ r.impactFactor # <<0>> THEN 1 ELSE 0)
    + (IF Len(r.authors) > 1 THEN 1 ELSE 0)
    + (IF r.journal # <<>> /\ r.journal # UnknownJournal THEN 1 ELSE 0)

\* C25: the completeness score is an integer between 0 and 8, the sum of
\* +3 for a non-"N/A" identifier, +2 for an abstract and +1 each for a
\* citation count, an impact factor, more than one author and a
\* non-default journal name.
C25_ScoreAtMost8 ==
    op = "score" =>
        /\ net.score \in 0..8
        /\ net.score = SpecifiedPoints(lits[1])

\* C25 (amended): the same sum, between 0 and 9; a record with all six
\* properties scores 3 + 2 + 1 + 1 + 1 + 1 = 9.
C25_ScoreIsWeightedSum ==
    op = "score" =>
        /\ net.score \in 0..9
        /\ net.score = SpecifiedPoints(lits[1])
        /\ (net.score = 9) <=>
              /\ lits[1].doi # <<>> /\ lits[1].doi # NA
              /\ TruthyStr(lits[1].abstract)
              /\ TruthyNum(lits[1].citationCount)
              /\ TruthyNum(lits[1].impactFactor)
              /\ Len(lits[1].authors) > 1
              /\ lits[1].journal # <<>> /\ lits[1].journal # UnknownJournal

C25_Witness ==
    /\ op = "score"
    /\ net.score = 9
    /\ lits[1].doi = Doi1
    /\ Len(lits[1].authors) = 2

(***************************************************************************)
(* The provider calls of one request of the dual-search POST handler:      *)
(* per sentence one neural search (ExaService.searchMultipleQueries) and   *)
(* the bibliographic and the title search of crossrefPromises.             *)
(***************************************************************************)
MaxFan == 3

CallSettled(status) == status \in {"ok", "failed"}

AllOf(statuses, S) == \A i \in 1..Len(statuses) : statuses[i] \in S

InitFanOut ==
    /\ \E n \in 1..MaxFan :
          net = [caller |-> "POST", st |-> "received",
                 exa |-> [i \in 1..n |-> "idle"],
                 bibliographic |-> [i \in 1..n |-> "idle"],
                 title |-> [i \in 1..n |-> "idle"]]
    /\ op = "init"
    /\ LibIdle
    /\ EvalIdle
    /\ RouteIdle

\* exaService.searchMultipleQueries(sentences, ...): Promise.all over
\* queries.map, every search is sent in the same turn
StartNeuralSearches ==
    /\ net # NoNet
    /\ net.caller = "POST"
    /\ net.st = "received"
    /\ net' = [net EXCEPT !.st = "neural",
                          !.exa = [i \in DOMAIN @ |-> "pending"]]
    /\ UNCHANGED <<op, libVars, evalVars, routeVars>>

\* one neural search settles; the first rejection rejects the Promise.all
\* and the handler's catch takes over
NeuralSearchSettles ==
    /\ net # NoNet
    /\ net.caller = "POST"
    /\ net.st \in {"neural", "neural-failed"}
    /\ \E i \in DOMAIN net.exa : \E outcome \in {"ok", "failed"} :
          /\ net.exa[i] = "pending"
          /\ net' = [net EXCEPT
                       !.exa[i] = outcome,
                       !.st = IF outcome = "failed" THEN "neural-failed"
                              ELSE @]
    /\ UNCHANGED <<op, libVars, evalVars, routeVars>>

\* `await exaService.searchMultipleQueries` has resolved; sentences.map
\* runs each async callback up to its first await, the bibliographic search
StartBibliographicSearches ==
    /\ net # NoNet
    /\ net.caller = "POST"
    /\ net.st = "neural"
    /\ AllOf(net.exa, {"ok"})
    /\ net' = [net EXCEPT !.st = "crossref",
                          !.bibliographic = [i \in DOMAIN @ |-> "pending"]]
    /\ UNCHANGED <<op, libVars, evalVars, routeVars>>

\* `await crossrefService.searchByBibliographic(sentence, 3)` settles: on
\* success the callback goes on to searchByTitle, on failure to its catch
BibliographicSearchSettles ==
    /\ net # NoNet
    /\ net.caller = "POST"
    /\ net.st = "crossref"
    /\ \E i \in DOMAIN net.bibliographic : \E outcome \in {"ok", "failed"} :
          /\ net.bibliographic[i] = "pending"
          /\ net' = [net EXCEPT
                       !.bibliographic[i] = outcome,
                       !.title[i] = IF outcome = "ok" THEN "pending"
                                    ELSE "skipped"]
    /\ UNCHANGED <<op, libVars, evalVars, routeVars>>

\* `await crossrefService.searchByTitle(sentence, 2)` settles
TitleSearchSettles ==
    /\ net # NoNet
    /\ net.caller = "POST"
    /\ net.st = "crossref"
    /\ \E i \in DOMAIN net.title : \E outcome \in {"ok", "failed"} :
          /\ net.title[i] = "pending"
          /\ net' = [net EXCEPT !.title[i] = outcome]
    /\ UNCHANGED <<op, libVars, evalVars, routeVars>>

\* `await Promise.all(crossrefPromises)` resolves
CrossrefFanOutResolves ==
    /\ net # NoNet
    /\ net.caller = "POST"
    /\ net.st = "crossref"
    /\ AllOf(net.title, {"ok", "failed", "skipped"})
    /\ net' = [net EXCEPT !.st = "converting"]
    /\ UNCHANGED <<op, libVars, evalVars, routeVars>>

NextFanOut ==
    \/ StartNeuralSearches
    \/ NeuralSearchSettles
    \/ StartBibliographicSearches
    \/ BibliographicSearchSettles
    \/ TitleSearchSettles
    \/ CrossrefFanOutResolves

SpecFanOut == InitFanOut /\ [][NextFanOut]_vars

\* the statuses of all provider calls of the request
ProviderCalls(fan) ==
    {fan.exa[i] : i \in DOMAIN fan.exa}
        \cup {fan.bibliographic[i] : i \in DOMAIN fan.bibliographic}
        \cup {fan.title[i] : i \in DOMAIN fan.title}

\* C26: the neural call and both bibliographic calls of every sentence are
\* issued without waiting for another provider call: while the request is
\* served, once any of them has completed none of them is still to be
\* started.
C26_FanOutStartedBeforeAwait ==
    (net # NoNet /\ net.caller = "POST" /\ net.st # "neural-failed") =>
        ((\E status \in ProviderCalls(net) : CallSettled(status))
            => "idle" \notin ProviderCalls(net))

(***************************************************************************)
(* The provider adapters on one provider record: the neural provider's     *)
(* hit with its publishedDate absent, a date, or a string that is no date, *)
(* and the bibliographic provider's work with and without date-parts.      *)
(***************************************************************************)
AdapterHits ==
    { [title |-> t, url |-> u, publishedDate |-> d, author |-> a,
       text |-> <<"text">>, highlights |-> 0] :
        t \in {<<"a">>, <<"c">>},
        u \in {ExaHitDoi.url, ExaHitArxiv.url, ExaHitBadUrl.url},
        d \in {<<>>, <<[year |-> 2020]>>, <<[year |-> 1999]>>, <<InvalidDate>>},
        a \in {<<>>, <<"X">>, <<"X", ",", " ", "Y">>} }

AdapterWorks ==
    { [w EXCEPT !.published = p] :
        w \in {CrossrefWorkA, CrossrefWorkC}, p \in {<<>>, <<0>>, <<2019>>} }

InitAdapter ==
    /\ net \in { [caller |-> "convertExaResultToLiterature", exaResult |-> h] :
                   h \in AdapterHits }
               \cup { [caller |-> "convertCrossrefToLiterature", work |-> w] :
                        w \in AdapterWorks }
    /\ op = "init"
    /\ LibIdle
    /\ EvalIdle
    /\ RouteIdle

\* convertExaResultToLiterature(exaResult, id, query)
ConvertExaResult ==
    /\ op = "init"
    /\ net # NoNet
    /\ net.caller = "convertExaResultToLiterature"
    /\ lits' = <<convertExaResultToLiterature(net.exaResult, 1)>>
    /\ op' = "convert"
    /\ UNCHANGED <<ret, ret2, evalVars, routeVars, netVars>>

\* convertCrossrefToLiterature(work, id)
ConvertCrossrefWork ==
    /\ op = "init"
    /\ net # NoNet
    /\ net.caller = "convertCrossrefToLiterature"
    /\ lits' = <<convertCrossrefToLiterature(net.work, 1)>>
    /\ op' = "convert"
    /\ UNCHANGED <<ret, ret2, evalVars, routeVars, netVars>>

NextAdapter == ConvertExaResult \/ ConvertCrossrefWork

SpecAdapter == InitAdapter /\ [][NextAdapter]_vars

\* the publication year the provider record supplies, if it supplies a
\* usable date
SuppliedYear(input) ==
    IF input.caller = "convertExaResultToLiterature"
    THEN IF input.exaResult.publishedDate # <<>>
            /\ input.exaResult.publishedDate[1] # InvalidDate
         THEN <<input.exaResult.publishedDate[1].year>>
         ELSE <<>>
    ELSE IF input.work.published # <<>> /\ input.work.published[1] # 0
         THEN <<input.work.published[1]>>
         ELSE <<>>

\* C27: the year of every record an adapter produces is a 4-digit integer:
\* the provider's publication year when it supplies a usable date, the
\* current year otherwise, also when the date field cannot be parsed.
C27_YearPlausible ==
    op = "convert" =>
        /\ lits[1].year \in 1000..9999
        /\ lits[1].year = IF SuppliedYear(net) # <<>> THEN SuppliedYear(net)[1]
                          ELSE CurrentYear

(***************************************************************************)
(* ExaService.searchWithRetry(options, maxRetries, baseDelay): the for     *)
(* loop around this.search, with the attempts made, the delays waited and  *)
(* the errors caught.  The error of the k-th call is numbered k.           *)
(***************************************************************************)
MaxExaRetries == 4

ExaBaseDelays == {100, 500, 1000}

\* error number of `new Error('Max retries exceeded')`
MaxRetriesExceeded == 0

\* mutant of RetryDelay: the delay grows linearly
RetryDelay_linear(baseDelay, attempt) == baseDelay * (attempt + 1)

\* const delay = baseDelay * Math.pow(2, attempt)
RetryDelay(baseDelay, attempt) == baseDelay * Pow(2, attempt)

InitExaRetry ==
    /\ \E maxRetries \in 0..MaxExaRetries : \E baseDelay \in ExaBaseDelays :
          net = [caller |-> "searchWithRetry", maxRetries |-> maxRetries,
                 baseDelay |-> baseDelay, attempt |-> 0, pc |-> "start",
                 calls |-> 0, waits |-> <<>>, errors |-> <<>>,
                 thrown |-> <<>>]
    /\ op = "init"
    /\ LibIdle
    /\ EvalIdle
    /\ RouteIdle

\* the loop test with attempt = 0: the first call of this.search, or the
\* throw after the loop when maxRetries is 0
SearchWithRetryEnters ==
    /\ net # NoNet
    /\ net.caller = "searchWithRetry"
    /\ net.pc = "start"
    /\ IF net.attempt < net.maxRetries
       THEN net' = [net EXCEPT !.pc = "searching", !.calls = @ + 1]
       ELSE net' = [net EXCEPT !.pc = "thrown",
                               !.thrown = <<MaxRetriesExceeded>>]
    /\ UNCHANGED <<op, libVars, evalVars, routeVars>>

\* return await this.search(options)
SearchWithRetrySucceeds ==
    /\ net # NoNet
    /\ net.caller = "searchWithRetry"
    /\ net.pc = "searching"
    /\ net' = [net EXCEPT !.pc = "returned"]
    /\ UNCHANGED <<op, libVars, evalVars, routeVars>>

\* this.search throws: lastError is kept; before the last attempt the loop
\* waits, after it the loop ends and lastError is thrown
SearchWithRetryFails ==
    /\ net # NoNet
    /\ net.caller = "searchWithRetry"
    /\ net.pc = "searching"
    /\ LET errors == Append(net.errors, net.calls)
       IN  IF net.attempt < net.maxRetries - 1
           THEN net' = [net EXCEPT
                          !.errors = errors,
                          !.waits = Append(@, RetryDelay(net.baseDelay,
                                                         net.attempt)),
                          !.pc = "waiting"]
           ELSE net' = [net EXCEPT
                          !.errors = errors,
                          !.attempt = @ + 1,
                          !.pc = "thrown",
                          !.thrown = <<errors[Len(errors)]>>]
    /\ UNCHANGED <<op, libVars, evalVars, routeVars>>

\* the setTimeout of the delay resolves; attempt++ and the next call
SearchWithRetryResumes ==
    /\ net # NoNet
    /\ net.caller = "searchWithRetry"
    /\ net.pc = "waiting"
    /\ net' = [net EXCEPT !.attempt = @ + 1, !.pc = "searching",
                          !.calls = @ + 1]
    /\ UNCHANGED <<op, libVars, evalVars, routeVars>>

NextExaRetry ==
    \/ SearchWithRetryEnters
    \/ SearchWithRetrySucceeds
    \/ SearchWithRetryFails
    \/ SearchWithRetryResumes

SpecExaRetry == InitExaRetry /\ [][NextExaRetry]_vars

\* what remains of the loop: it decreases with every step and is 0 once
\* searchWithRetry has returned or thrown
RetryMeasure ==
    IF net.pc = "start" THEN 2 * net.maxRetries + 2
    ELSE IF net.pc = "searching" THEN 2 * (net.maxRetries - net.attempt)
    ELSE IF net.pc = "waiting" THEN 2 * (net.maxRetries - net.attempt) - 1
    ELSE 0

\* the calls, waits and outcome of searchWithRetry so far
RetryContract ==
    /\ net.calls <= net.maxRetries
    /\ Len(net.waits) = IF Len(net.errors) < net.maxRetries
                        THEN Len(net.errors) ELSE net.maxRetries - 1
    /\ \A k \in 1..Len(net.waits) :
          net.waits[k] = net.baseDelay * Pow(2, k - 1)
    /\ net.pc = "returned" =>
          /\ net.calls = Len(net.errors) + 1
          /\ net.thrown = <<>>
    /\ net.pc = "thrown" =>
          /\ net.calls = net.maxRetries
          /\ Len(net.errors) = net.maxRetries
          /\ net.thrown = <<net.errors[net.maxRetries]>>

\* C29: for every maxRetries >= 1 searchWithRetry terminates (every step
\* shortens what remains of the loop, and nothing follows a return or a
\* throw), calls search at most maxRetries times, waits baseDelay * 2^k
\* after the k-th failed attempt except after the last one, returns at the
\* first success and throws the error of the last attempt when all failed.
C29_SearchWithRetryTerminates ==
    [][net.maxRetries >= 1 =>
         /\ RetryMeasure' \in Nat
         /\ RetryMeasure' < RetryMeasure
         /\ RetryContract']_vars

C29_Witness ==
    /\ net # NoNet
    /\ net.caller = "searchWithRetry"
    /\ net.pc = "thrown"
    /\ net.maxRetries = 4
    /\ net.baseDelay = 1000
    /\ net.waits = <<1000, 2000, 4000>>
    /\ net.thrown = <<4>>

(***************************************************************************)
(* OpenRouterService.calculateSemanticSimilarity with its cache.  Each     *)
(* cache entry also remembers the query and text it was computed for.      *)
(* Scores and confidences are in hundredths.                               *)
(***************************************************************************)
MaxCalls == 3

KeyLength == 200

KeySeparator == <<"|", "|", "|">>

\* `${query}|||${text}`.substring(0, 200)
getCacheKey(query, text) ==
    LET joined == query \o KeySeparator \o text
    IN  SubSeq(joined, 1, IF Len(joined) < KeyLength THEN Len(joined)
                          ELSE KeyLength)

\* a text body of KeyLength characters, shared by the long texts
LongBody == [i \in 1..KeyLength |-> "x"]

SimilarityQueries == {<<"q">>}

SimilarityTexts ==
    {<<"a">>, <<"b">>, LongBody \o <<"a">>, LongBody \o <<"b">>}

\* the scores parseScore can yield from the model's answer
SimilarityScores == {0, 50, 100}

InitSimilarity ==
    /\ net = [caller |-> "calculateSemanticSimilarity", cache |-> {},
              calls |-> 0, last |-> <<>>]
    /\ op = "init"
    /\ LibIdle
    /\ EvalIdle
    /\ RouteIdle

CacheEntry(cache, key) == {e \in cache : e.key = key}

\* const cached = this.cache.get(cacheKey); if (cached) return cached
SimilarityFromCache ==
    /\ net # NoNet
    /\ net.caller = "calculateSemanticSimilarity"
    /\ net.calls < MaxCalls
    /\ \E query \in SimilarityQueries : \E text \in SimilarityTexts :
       \E e \in CacheEntry(net.cache, getCacheKey(query, text)) :
          net' = [net EXCEPT
                    !.calls = @ + 1,
                    !.last = <<[query |-> query, text |-> text,
                                result |-> e.result, fromCache |-> TRUE,
                                storedFor |-> [query |-> e.query,
                                               text |-> e.text]]>>]
    /\ UNCHANGED <<op, libVars, evalVars, routeVars>>

\* no entry under the key: the model is asked, its score is parsed, the
\* result is stored under the key and returned
SimilarityComputed ==
    /\ net # NoNet
    /\ net.caller = "calculateSemanticSimilarity"
    /\ net.calls < MaxCalls
    /\ \E query \in SimilarityQueries : \E text \in SimilarityTexts :
       \E score \in SimilarityScores :
          LET key == getCacheKey(query, text)
              result == [score |-> score,
                         confidence |-> IF score > 0 THEN 80 ELSE 50]
          IN  /\ CacheEntry(net.cache, key) = {}
              /\ net' = [net EXCEPT
                           !.calls = @ + 1,
                           !.cache = @ \cup {[key |-> key, result |-> result,
                                              query |-> query, text |-> text]},
                           !.last = <<[query |-> query, text |-> text,
                                       result |-> result, fromCache |-> FALSE,
                                       storedFor |-> [query |-> query,
                                                      text |-> text]]>>]
    /\ UNCHANGED <<op, libVars, evalVars, routeVars>>

\* no entry under the key and makeRequest throws: { score: 0, confidence: 0 }
\* is returned and nothing is stored
SimilarityFails ==
    /\ net # NoNet
    /\ net.caller = "calculateSemanticSimilarity"
    /\ net.calls < MaxCalls
    /\ \E query \in SimilarityQueries : \E text \in SimilarityTexts :
          /\ CacheEntry(net.cache, getCacheKey(query, text)) = {}
          /\ net' = [net EXCEPT
                       !.calls = @ + 1,
                       !.last = <<[query |-> query, text |-> text,
                                   result |-> [score |-> 0, confidence |-> 0],
                                   fromCache |-> FALSE,
                                   storedFor |-> [query |-> query,
                                                  text |-> text]]>>]
    /\ UNCHANGED <<op, libVars, evalVars, routeVars>>

NextSimilarity ==
    \/ SimilarityFromCache
    \/ SimilarityComputed
    \/ SimilarityFails

SpecSimilarity == InitSimilarity /\ [][NextSimilarity]_vars

\* C30: a result served from the cache was stored by an earlier call with
\* exactly the same query and the same text, whatever the text's length.
C30_CacheServesSameInput ==
    (net # NoNet /\ net.caller = "calculateSemanticSimilarity"
       /\ net.last # <<>> /\ net.last[1].fromCache) =>
        /\ net.last[1].storedFor.query = net.last[1].query
        /\ net.last[1].storedFor.text = net.last[1].text

====
